---- MODULE Spec2Model ----
(***************************************************************************)
(* A model of trendradar/web/server.py: the periodic scheduler, the        *)
(* ingestion cycle (fetch_news_data), the fetch-metrics ring and its       *)
(* durable JSON-lines mirror, the per-platform change detector and the     *)
(* cache invalidation performed at the end of a cycle.                     *)
(*                                                                         *)
(* Python's None is modelled by 0 where the value is otherwise a positive  *)
(* integer (task handles, timestamps, service instances) and by a record   *)
(* with a has/known flag where the value is a list or a count.             *)
(***************************************************************************)
EXTENDS Integers, Sequences, FiniteSets, TLC

\* ------------------------------------------------------------- bounds
MaxCap == 3          \* capacities of the ring tried by SpecRing: 1..MaxCap
MaxAppends == 5      \* records appended in one behaviour of SpecRing
MaxBatch == 2        \* records of one batch of SpecRing
MaxObs == 3          \* observations in one behaviour of SpecChange
MaxKeys == 2         \* content keys of one observation
MaxCycles == 2       \* ingestion cycles started in one behaviour
MaxTasks == 2        \* scheduler loop tasks created in one behaviour
MaxReads == 2        \* derived-view computations in one behaviour

\* ------------------------------------------------------------- values
Platforms == {"a", "b", "c"}
Statuses == {"success", "error"}
\* Platform names as configured; "hotLSlist" stands for a name that holds one
\* U+2028 (LINE SEPARATOR), which json.dumps(ensure_ascii=False) writes as it
\* is and str.splitlines() treats as a line boundary.
Names == {"hot", "hotLSlist"}
LineBoundaries(name) == IF name = "hotLSlist" THEN 1 ELSE 0

NoKeys == [has |-> FALSE, list |-> <<>>]
KeyList(l) == [has |-> TRUE, list |-> l]
Unknown == [known |-> FALSE, n |-> 0]
Known(n) == [known |-> TRUE, n |-> n]

VARIABLES
    fetch_metrics_max,           \* _FETCH_METRICS_MAX, the deque's maxlen
    fetch_metrics,               \* _fetch_metrics, the deque, oldest first
    metrics_file,                \* fetch_metrics.jsonl: its lines, oldest first
    last_platform_content_keys,  \* _last_platform_content_keys
    clock,                       \* the wall clock read by datetime.now()
    scheduler_running,           \* _scheduler_running
    scheduler_task,              \* _scheduler_task: a task, or 0 for None
    fetch_interval_minutes,      \* _fetch_interval_minutes
    last_fetch_time,             \* _last_fetch_time: a clock value, or 0 for None
    viewer_service,              \* _viewer_service: an instance, or 0 for None
    data_service,                \* _data_service: an instance, or 0 for None
    booted,                      \* on_startup has run
    tasks,                       \* the scheduler_loop tasks ever created
    cyc,                         \* the runs of _run_blocking_fetch, each in its thread
    stored,                      \* the storage collaborator: number of snapshots saved
    cache,                       \* get_cache(): the snapshot its entries derive from
    cat_cache,                   \* the categorized-news cache of news_viewer
    reads,                       \* the derived-view computations of the request handlers
    response,                    \* the last HTTP response sent
    hist,                        \* history: what each cycle has done so far
    appended,                    \* history: every record given to the ring, in order
    reported,                    \* history: the key list last reported per platform
    observed,                    \* history: the last observation of the change detector
    online_sessions,             \* the rows of table online_sessions of online.db
    now,                         \* int(time.time()), in seconds
    reply,                       \* the last response of the presence and metrics endpoints
    fetch_metrics_lock,          \* _fetch_metrics_lock: the thread that holds it, or "free"
    thr                          \* the threads inside a critical section of the lock

\* ------------------------------------------------------------- sequences
Range(s) == {s[i] : i \in DOMAIN s}
Min(a, b) == IF a < b THEN a ELSE b

\* s[-n:] of Python, for n >= 1
LastN(s, n) == IF Len(s) <= n THEN s ELSE SubSeq(s, Len(s) - n + 1, Len(s))

RECURSIVE Flatten(_)
Flatten(ss) == IF ss = <<>> THEN <<>> ELSE Head(ss) \o Flatten(Tail(ss))

SeqsUpTo(S, n) == UNION {[1..k -> S] : k \in 0..n}

\* ------------------------------------------------------------- the ring
\* deque(maxlen).append, once per record of the batch
RECURSIVE DequeExtend(_, _, _)
DequeExtend(dq, batch, maxlen) ==
    IF batch = <<>> THEN dq
    ELSE LET one == Append(dq, Head(batch))
             kept == IF Len(one) > maxlen THEN Tail(one) ELSE one
         IN DequeExtend(kept, Tail(batch), maxlen)

\* _record_fetch_metrics: the whole batch under _fetch_metrics_lock
RecordFetchMetrics(dq, batch, maxlen) == DequeExtend(dq, batch, maxlen)

\* ------------------------------------------------------------- the log
\* A line of the file is a stretch of the text json.dumps gives for a record:
\* the text holds LineBoundaries(platform_name) line-boundary characters, which
\* cut it in pieces 0..hi; the line as written is pieces 0..hi in one.
JsonDumps(m) == [rec |-> m, lo |-> 0, hi |-> LineBoundaries(m.platform_name)]

\* f.write(json.dumps(m) + "\n") for every record of the batch
FileAppend(file, batch) == file \o [i \in 1..Len(batch) |-> JsonDumps(batch[i])]

\* str.splitlines() on one written line: cut at every line boundary it holds
PiecesOf(line) ==
    [i \in 1..(line.hi - line.lo + 1) |->
        [rec |-> line.rec, lo |-> line.lo + i - 1, hi |-> line.lo + i - 1]]

\* fp.read_text().splitlines()
SplitLines(file) == Flatten([i \in 1..Len(file) |-> PiecesOf(file[i])])

\* "\n".join(lines[-_FETCH_METRICS_MAX:]) + "\n": every piece is now a line
FileRewrite(lines, maxlen) == LastN(lines, maxlen)

\* _append_fetch_metrics_batch, run without interruption and without I/O error
AppendFetchMetricsBatch(file, batch, maxlen) ==
    IF batch = <<>> THEN file
    ELSE LET written == FileAppend(file, batch)
             lines == SplitLines(written)
         IN IF Len(lines) > maxlen THEN FileRewrite(lines, maxlen) ELSE written

\* What a reader of the JSON-lines file finds: a line is a record when it holds
\* the whole text of one.
IsRecordLine(line) == line.lo = 0 /\ line.hi = LineBoundaries(line.rec.platform_name)
RecordsOf(file) ==
    LET whole == SelectSeq(file, IsRecordLine)
    IN [i \in 1..Len(whole) |-> whole[i].rec]

\* ------------------------------------------------------------- the change detector
\* a count by position: the current keys that differ from the previous key at
\* the same place
ChangedCountByPosition(prev, content_keys) ==
    IF prev.has /\ prev.list # <<>>
    THEN Cardinality({i \in DOMAIN content_keys :
                        i > Len(prev.list) \/ content_keys[i] # prev.list[i]})
    ELSE Len(content_keys)

\* lines 223-229: the number of current keys that the previous list lacks, or
\* all of them when there is no previous list or it is empty
ChangedCount(prev, content_keys) ==
    IF prev.has /\ prev.list # <<>>
    THEN Cardinality({i \in DOMAIN content_keys : content_keys[i] \notin Range(prev.list)})
    ELSE Len(content_keys)

\* lines 220-230 for one metric m of the crawler: the changed_count it is given
\* and the snapshots afterwards. m.platform_id is the id after str().strip();
\* a missing id is "".
MetricChanged(m, snaps) ==
    IF m.platform_id # "" /\ m.keys.has
    THEN Known(ChangedCount(snaps[m.platform_id], m.keys.list))
    ELSE Unknown

\* the snapshot forgotten when no list is reported
SnapshotsAfterForgetting(m, snaps) ==
    IF m.platform_id = "" THEN snaps
    ELSE [snaps EXCEPT ![m.platform_id] = m.keys]

\* the snapshot kept when the current list is empty
SnapshotsAfterUnlessEmpty(m, snaps) ==
    IF m.platform_id # "" /\ m.keys.has /\ m.keys.list # <<>>
    THEN [snaps EXCEPT ![m.platform_id] = m.keys]
    ELSE snaps

\* line 230: _last_platform_content_keys[pid] = content_keys, whatever the list
SnapshotsAfter(m, snaps) ==
    IF m.platform_id # "" /\ m.keys.has
    THEN [snaps EXCEPT ![m.platform_id] = m.keys]
    ELSE snaps

\* lines 217-233: the record put in the batch for metric m
MetricRecord(m, now_str, snaps) ==
    [platform_id |-> m.platform_id,
     platform_name |-> m.platform_name,
     status |-> m.status,
     fetched_at |-> now_str,
     changed_count |-> MetricChanged(m, snaps)]

\* The metrics a crawler may report (fetcher.last_crawl_metrics)
MetricDicts(pids, names, keylists) ==
    [platform_id : pids, platform_name : names, status : Statuses,
     keys : {NoKeys} \cup {KeyList(l) : l \in keylists}]

NoSnapshots == [p \in Platforms |-> NoKeys]
NoObservation == [m |-> [platform_id |-> "", platform_name |-> "hot",
                         status |-> "success", keys |-> NoKeys],
                  changed |-> Unknown, prev |-> NoKeys, n |-> 0]

\* ------------------------------------------------------------- state groups
metricVars == <<fetch_metrics_max, fetch_metrics, metrics_file, last_platform_content_keys>>
schedVars == <<scheduler_running, scheduler_task, fetch_interval_minutes, tasks, booted>>
serviceVars == <<viewer_service, data_service>>
cacheVars == <<cache, cat_cache>>
ghostVars == <<appended, reported, observed>>
lockVars == <<fetch_metrics_lock, thr>>
\* what the steps of the cycles, of the scheduler and of the readers leave alone
handlerVars == <<online_sessions, now, reply, lockVars>>

vars == <<fetch_metrics_max, fetch_metrics, metrics_file, last_platform_content_keys,
          clock, scheduler_running, scheduler_task, fetch_interval_minutes,
          last_fetch_time, viewer_service, data_service, booted, tasks, cyc, stored,
          cache, cat_cache, reads, response, hist, appended, reported, observed,
          online_sessions, now, reply, fetch_metrics_lock, thr>>

\* ------------------------------------------------------------- one ingestion cycle
\* fetch_news_data runs _run_blocking_fetch in a worker thread (line 313), so
\* the steps of a cycle interleave with the event loop and with other cycles.
\* A step of the model is a stretch of the function that touches shared state
\* once.
Cycles == 1..MaxCycles

\* The threads that take _fetch_metrics_lock: two cycle threads inside
\* _record_fetch_metrics (lines 97-103) and the event loop inside
\* api_fetch_metrics (lines 322-323). CycleRecord and api_fetch_metrics hold the
\* lock for their whole step; SpecLock takes their critical sections line by
\* line.
Writers == {"w1", "w2"}
Threads == Writers \cup {"q"}
NoCall == [pc |-> "idle", batch |-> <<>>, stamp |-> 0, j |-> 1, items |-> <<>>, n |-> 0]

EmptyResults == [p \in {} |-> 0]
Pending == [success |-> FALSE, error |-> "pending", platforms |-> 0, news_count |-> 0]
\* line 198, 239, 311: {"success": False, "error": ...}
Failure(err) == [success |-> FALSE, error |-> err, platforms |-> 0, news_count |-> 0]
\* line 307: {"success": True, "platforms": ..., "news_count": ...}
Success(s, t) == [success |-> TRUE, error |-> "", platforms |-> s, news_count |-> t]

FreeCycle == [pc |-> "free", by |-> "none", task |-> 0,
              results |-> EmptyResults, metrics |-> <<>>, i |-> 1,
              batch |-> <<>>, now_str |-> 0, lines |-> <<>>, result |-> Pending]

\* history of a cycle: what it was given and what it has done
NoHistory == [loaded |-> FALSE, n_platforms |-> 0, crawled |-> FALSE,
              sources |-> {}, statuses |-> <<>>, recorded |-> FALSE,
              logged |-> FALSE, persisted |-> FALSE, metrics_first |-> FALSE,
              version |-> 0, set_last |-> FALSE, clears |-> 0, invalidated |-> 0,
              api_clears |-> 0, raised |-> "none"]

Empty == [has |-> FALSE, ver |-> 0]
Filled(v) == [has |-> TRUE, ver |-> v]

\* the sources counted in place of their items
TotalNewsBySource(results) == Cardinality(DOMAIN results)

\* line 304: sum(len(items) for items in crawl_results.values())
RECURSIVE SumItems(_, _)
SumItems(results, ps) ==
    IF ps = {} THEN 0
    ELSE LET p == CHOOSE q \in ps : TRUE
         IN results[p] + SumItems(results, ps \ {p})
TotalNews(results) == SumItems(results, DOMAIN results)

UsedCycles == {c \in Cycles : cyc[c].pc # "free"}
CanStartCycle == Cardinality(UsedCycles) < MaxCycles
NewCycle == Cardinality(UsedCycles) + 1
Finished(c) == cyc[c].pc \in {"returned", "done"}

\* The event loop runs one handler step at a time: a derived-view computation,
\* a synchronous call inside its handler, holds it until the call returns.
LoopThreadFree == \A r \in DOMAIN reads : reads[r].pc \in {"idle", "done"}

\* asyncio.to_thread(_run_blocking_fetch): the thread starts at line 178
SpawnCycle(by, t) ==
    cyc' = [cyc EXCEPT ![NewCycle] = [FreeCycle EXCEPT !.pc = "config", !.by = by, !.task = t]]

\* the thread ends with `result` (a return, or the except of line 309)
Return(c, result) ==
    cyc' = [cyc EXCEPT ![c] = [FreeCycle EXCEPT !.pc = "returned", !.by = cyc[c].by,
                                  !.task = cyc[c].task, !.now_str = cyc[c].now_str,
                                  !.result = result]]

\* CycleConfig without the check of line 196: the crawl goes on without platforms
CycleConfigUnchecked(c, Configs) ==
    /\ cyc[c].pc = "config"
    /\ \/ /\ Return(c, Failure("config_error"))
          /\ hist' = [hist EXCEPT ![c].raised = "config"]
       \/ \E platforms \in Configs :
            /\ hist' = [hist EXCEPT ![c].loaded = TRUE,
                                    ![c].n_platforms = Cardinality(platforms)]
            /\ cyc' = [cyc EXCEPT ![c].pc = "crawl"]
    /\ UNCHANGED handlerVars
    /\ UNCHANGED <<metricVars, clock, schedVars, serviceVars, cacheVars, ghostVars,
                   last_fetch_time, stored, reads, response>>

\* lines 182-198: load the configuration; without platforms, give up
CycleConfig(c, Configs) ==
    /\ cyc[c].pc = "config"
    /\ \/ \* load_config raises
          /\ Return(c, Failure("config_error"))
          /\ hist' = [hist EXCEPT ![c].raised = "config"]
       \/ \E platforms \in Configs :
            /\ hist' = [hist EXCEPT ![c].loaded = TRUE,
                                    ![c].n_platforms = Cardinality(platforms)]
            /\ IF platforms = {}
               THEN Return(c, Failure("no_platforms"))
               ELSE cyc' = [cyc EXCEPT ![c].pc = "crawl"]
    /\ UNCHANGED handlerVars
    /\ UNCHANGED <<metricVars, clock, schedVars, serviceVars, cacheVars, ghostVars,
                   last_fetch_time, stored, reads, response>>

\* lines 201-212: crawl, which may raise, then read the clock
CycleCrawl(c, Outcomes) ==
    /\ cyc[c].pc = "crawl"
    /\ \/ /\ Return(c, Failure("crawl_error"))
          /\ hist' = [hist EXCEPT ![c].crawled = TRUE, ![c].raised = "crawler"]
          /\ UNCHANGED clock
       \/ \E o \in Outcomes :
            /\ cyc' = [cyc EXCEPT ![c] = [@ EXCEPT !.pc = "loop", !.results = o.results,
                                             !.metrics = o.metrics, !.now_str = clock + 1]]
            /\ hist' = [hist EXCEPT ![c].crawled = TRUE,
                                    ![c].sources = DOMAIN o.results,
                                    ![c].statuses =
                                        [i \in 1..Len(o.metrics) |-> o.metrics[i].status]]
            /\ clock' = clock + 1
    /\ UNCHANGED handlerVars
    /\ UNCHANGED <<metricVars, schedVars, serviceVars, cacheVars, ghostVars,
                   last_fetch_time, stored, reads, response>>

\* lines 214-233, once round the loop
CycleMetric(c) ==
    /\ cyc[c].pc = "loop"
    /\ cyc[c].i <= Len(cyc[c].metrics)
    /\ LET m == cyc[c].metrics[cyc[c].i]
           mm == MetricRecord(m, cyc[c].now_str, last_platform_content_keys)
       IN /\ cyc' = [cyc EXCEPT ![c] = [@ EXCEPT !.i = @ + 1, !.batch = Append(@, mm)]]
          /\ last_platform_content_keys' = SnapshotsAfter(m, last_platform_content_keys)
    /\ UNCHANGED handlerVars
    /\ UNCHANGED <<fetch_metrics_max, fetch_metrics, metrics_file, clock, schedVars,
                   serviceVars, cacheVars, ghostVars, last_fetch_time, stored, reads,
                   response, hist>>

\* line 234: _record_fetch_metrics(batch_metrics)
CycleRecord(c) ==
    /\ cyc[c].pc = "loop"
    /\ cyc[c].i > Len(cyc[c].metrics)
    /\ fetch_metrics' = RecordFetchMetrics(fetch_metrics, cyc[c].batch, fetch_metrics_max)
    /\ appended' = appended \o cyc[c].batch
    /\ hist' = [hist EXCEPT ![c].recorded = TRUE]
    /\ cyc' = [cyc EXCEPT ![c].pc = IF cyc[c].batch = <<>> THEN "check" ELSE "log_append"]
    /\ UNCHANGED handlerVars
    /\ UNCHANGED <<fetch_metrics_max, metrics_file, last_platform_content_keys, clock,
                   schedVars, serviceVars, cacheVars, reported, observed,
                   last_fetch_time, stored, reads, response>>

\* CycleLogAppend with the except of line 93 missing: an I/O error of the write
\* reaches the except of line 309 and the cycle returns a failure
CycleLogAppendRaising(c, IoErrors) ==
    /\ cyc[c].pc = "log_append"
    /\ \/ /\ metrics_file' = FileAppend(metrics_file, cyc[c].batch)
          /\ cyc' = [cyc EXCEPT ![c].pc = "log_read"]
          /\ hist' = [hist EXCEPT ![c].logged = TRUE]
       \/ /\ IoErrors
          /\ \E k \in 0..(Len(cyc[c].batch) - 1) :
                metrics_file' = FileAppend(metrics_file, SubSeq(cyc[c].batch, 1, k))
          /\ Return(c, Failure("io_error"))
          /\ hist' = [hist EXCEPT ![c].raised = "log"]
    /\ UNCHANGED handlerVars
    /\ UNCHANGED <<fetch_metrics_max, fetch_metrics, last_platform_content_keys, clock,
                   schedVars, serviceVars, cacheVars, ghostVars, last_fetch_time,
                   stored, reads, response>>

\* _append_fetch_metrics_batch (line 235), lines 83-85: append the batch to the
\* file. With IoErrors, the write may raise after any number of whole lines;
\* the except of line 93 then ends the function.
CycleLogAppend(c, IoErrors) ==
    /\ cyc[c].pc = "log_append"
    /\ \/ /\ metrics_file' = FileAppend(metrics_file, cyc[c].batch)
          /\ cyc' = [cyc EXCEPT ![c].pc = "log_read"]
          /\ hist' = [hist EXCEPT ![c].logged = TRUE]
       \/ /\ IoErrors
          /\ \E k \in 0..(Len(cyc[c].batch) - 1) :
                metrics_file' = FileAppend(metrics_file, SubSeq(cyc[c].batch, 1, k))
          /\ cyc' = [cyc EXCEPT ![c].pc = "check"]
          /\ UNCHANGED hist
    /\ UNCHANGED handlerVars
    /\ UNCHANGED <<fetch_metrics_max, fetch_metrics, last_platform_content_keys, clock,
                   schedVars, serviceVars, cacheVars, ghostVars, last_fetch_time,
                   stored, reads, response>>

\* lines 87-91: read the file back and count its lines; a failed read gives no
\* lines (line 90)
CycleLogRead(c, IoErrors) ==
    /\ cyc[c].pc = "log_read"
    /\ \E lines \in {SplitLines(metrics_file)} \cup (IF IoErrors THEN {<<>>} ELSE {}) :
         cyc' = [cyc EXCEPT ![c] = [@ EXCEPT
                    !.lines = IF Len(lines) > fetch_metrics_max THEN lines ELSE <<>>,
                    !.pc = IF Len(lines) > fetch_metrics_max THEN "log_rewrite" ELSE "check"]]
    /\ UNCHANGED handlerVars
    /\ UNCHANGED <<metricVars, clock, schedVars, serviceVars, cacheVars, ghostVars,
                   last_fetch_time, stored, reads, response, hist>>

\* line 92: rewrite the file with the last _FETCH_METRICS_MAX lines read. A
\* failed write_text leaves the file as it was (open failed) or empty (opened,
\* so truncated, and nothing written).
CycleLogRewrite(c, IoErrors) ==
    /\ cyc[c].pc = "log_rewrite"
    /\ \/ metrics_file' = FileRewrite(cyc[c].lines, fetch_metrics_max)
       \/ /\ IoErrors
          /\ metrics_file' \in {metrics_file, <<>>}
    /\ cyc' = [cyc EXCEPT ![c] = [@ EXCEPT !.pc = "check", !.lines = <<>>]]
    /\ UNCHANGED handlerVars
    /\ UNCHANGED <<fetch_metrics_max, fetch_metrics, last_platform_content_keys, clock,
                   schedVars, serviceVars, cacheVars, ghostVars, last_fetch_time,
                   stored, reads, response, hist>>

\* CycleSave with a storage error swallowed: the cycle goes on
CycleSaveSwallowed(c) ==
    /\ cyc[c].pc = "check"
    /\ \/ /\ DOMAIN cyc[c].results = {}
          /\ Return(c, Failure("no_data"))
          /\ UNCHANGED <<stored, hist>>
       \/ /\ DOMAIN cyc[c].results # {}
          /\ stored' = stored + 1
          /\ hist' = [hist EXCEPT ![c].persisted = TRUE, ![c].version = stored + 1,
                                  ![c].metrics_first = hist[c].recorded]
          /\ cyc' = [cyc EXCEPT ![c].pc = "set_last"]
       \/ /\ DOMAIN cyc[c].results # {}
          /\ cyc' = [cyc EXCEPT ![c].pc = "set_last"]
          /\ hist' = [hist EXCEPT ![c].raised = "storage"]
          /\ UNCHANGED stored
    /\ UNCHANGED handlerVars
    /\ UNCHANGED <<metricVars, clock, schedVars, serviceVars, cacheVars, ghostVars,
                   last_fetch_time, reads, response>>

\* CycleSave with the metrics of the cycle taken back from the ring when the
\* save fails
CycleSaveRollback(c) ==
    /\ cyc[c].pc = "check"
    /\ \/ /\ DOMAIN cyc[c].results = {}
          /\ Return(c, Failure("no_data"))
          /\ UNCHANGED <<stored, hist, fetch_metrics>>
       \/ /\ DOMAIN cyc[c].results # {}
          /\ stored' = stored + 1
          /\ hist' = [hist EXCEPT ![c].persisted = TRUE, ![c].version = stored + 1,
                                  ![c].metrics_first = hist[c].recorded]
          /\ cyc' = [cyc EXCEPT ![c].pc = "set_last"]
          /\ UNCHANGED fetch_metrics
       \/ /\ DOMAIN cyc[c].results # {}
          /\ Return(c, Failure("storage_error"))
          /\ hist' = [hist EXCEPT ![c].raised = "storage"]
          /\ fetch_metrics' = SelectSeq(fetch_metrics,
                                  LAMBDA m : m.fetched_at # cyc[c].now_str)
          /\ UNCHANGED stored
    /\ UNCHANGED handlerVars
    /\ UNCHANGED <<fetch_metrics_max, metrics_file, last_platform_content_keys, clock,
                   schedVars, serviceVars, cacheVars, ghostVars, last_fetch_time,
                   reads, response>>

\* lines 237-266: give up when nothing was crawled, else convert and save the
\* snapshot; storage.save_news_data may raise. The provider ingestion of lines
\* 268-287 is wrapped in its own try and changes nothing modelled here.
CycleSave(c) ==
    /\ cyc[c].pc = "check"
    /\ \/ /\ DOMAIN cyc[c].results = {}
          /\ Return(c, Failure("no_data"))
          /\ UNCHANGED <<stored, hist>>
       \/ /\ DOMAIN cyc[c].results # {}
          /\ stored' = stored + 1
          /\ hist' = [hist EXCEPT ![c].persisted = TRUE, ![c].version = stored + 1,
                                  ![c].metrics_first = hist[c].recorded]
          /\ cyc' = [cyc EXCEPT ![c].pc = "set_last"]
       \/ /\ DOMAIN cyc[c].results # {}
          /\ Return(c, Failure("storage_error"))
          /\ hist' = [hist EXCEPT ![c].raised = "storage"]
          /\ UNCHANGED stored
    /\ UNCHANGED handlerVars
    /\ UNCHANGED <<metricVars, clock, schedVars, serviceVars, cacheVars, ghostVars,
                   last_fetch_time, reads, response>>

\* line 290: _last_fetch_time = datetime.now()
CycleSetLast(c) ==
    /\ cyc[c].pc = "set_last"
    /\ last_fetch_time' = clock + 1
    /\ clock' = clock + 1
    /\ hist' = [hist EXCEPT ![c].set_last = TRUE]
    /\ cyc' = [cyc EXCEPT ![c].pc = "cache_clear"]
    /\ UNCHANGED handlerVars
    /\ UNCHANGED <<metricVars, schedVars, serviceVars, cacheVars, ghostVars,
                   stored, reads, response>>

\* the cache cleared twice in the cycle
CycleCacheClearTwice(c) ==
    /\ cyc[c].pc = "cache_clear"
    /\ cache' = Empty
    /\ hist' = [hist EXCEPT ![c].clears = @ + 2]
    /\ cyc' = [cyc EXCEPT ![c].pc = "cat_clear"]
    /\ UNCHANGED handlerVars
    /\ UNCHANGED <<metricVars, clock, schedVars, serviceVars, cat_cache, ghostVars,
                   last_fetch_time, stored, reads, response>>

\* lines 296-297: get_cache().clear()
CycleCacheClear(c) ==
    /\ cyc[c].pc = "cache_clear"
    /\ cache' = Empty
    /\ hist' = [hist EXCEPT ![c].clears = @ + 1]
    /\ cyc' = [cyc EXCEPT ![c].pc = "cat_clear"]
    /\ UNCHANGED handlerVars
    /\ UNCHANGED <<metricVars, clock, schedVars, serviceVars, cat_cache, ghostVars,
                   last_fetch_time, stored, reads, response>>

\* line 298: clear_categorized_news_cache()
CycleCatClear(c) ==
    /\ cyc[c].pc = "cat_clear"
    /\ cat_cache' = Empty
    /\ cyc' = [cyc EXCEPT ![c].pc = "reset"]
    /\ UNCHANGED handlerVars
    /\ UNCHANGED <<metricVars, clock, schedVars, serviceVars, cache, ghostVars,
                   last_fetch_time, stored, reads, response, hist>>

\* lines 301-307: drop the service instances, count, return the result
CycleReset(c) ==
    /\ cyc[c].pc = "reset"
    /\ viewer_service' = 0
    /\ data_service' = 0
    /\ hist' = [hist EXCEPT ![c].invalidated = @ + 1]
    /\ Return(c, Success(Cardinality(DOMAIN cyc[c].results), TotalNews(cyc[c].results)))
    /\ UNCHANGED handlerVars
    /\ UNCHANGED <<metricVars, clock, schedVars, cacheVars, ghostVars,
                   last_fetch_time, stored, reads, response>>

\* the steps of the thread of cycle c
CycleStep(c, Configs, Outcomes, IoErrors) ==
    \/ CycleConfig(c, Configs)
    \/ CycleCrawl(c, Outcomes)
    \/ CycleMetric(c)
    \/ CycleRecord(c)
    \/ CycleLogAppend(c, IoErrors)
    \/ CycleLogRead(c, IoErrors)
    \/ CycleLogRewrite(c, IoErrors)
    \/ CycleSave(c)
    \/ CycleSetLast(c)
    \/ CycleCacheClear(c)
    \/ CycleCatClear(c)
    \/ CycleReset(c)

\* ------------------------------------------------------------- the scheduler
Tasks == 1..MaxTasks
\* An interval is what the caller hands to start_scheduler: a number, or
\* (from the configuration file) a value that is no number.
IntervalOf(n) == [num |-> TRUE, v |-> n]
NotANumber == [num |-> FALSE, v |-> 0]
\* line 754: Query(30, ge=5, le=1440)
InApiRange(n) == 5 <= n /\ n <= 1440
\* intervals asked of POST /api/scheduler/start, and fetch_interval_minutes
\* values of the configuration file
ApiIntervals == {4, 5, 1440, 1441}
ConfigIntervals == {IntervalOf(30), IntervalOf(0), NotANumber}

NoTask == [pos |-> "none", cycle |-> 0]
Alive(t) == tasks[t].pos \in {"new", "cycle", "sleep"}
CreatedTasks == {t \in Tasks : tasks[t].pos # "none"}
NewTask == Cardinality(CreatedTasks) + 1

NoResponse == [op |-> "none", code |-> 0, running |-> FALSE,
               interval |-> IntervalOf(0), last |-> 0, result |-> Pending]

\* start_scheduler without the test of line 417
start_scheduler_unguarded(interval_minutes) ==
    /\ NewTask <= MaxTasks
    /\ fetch_interval_minutes' = interval_minutes
    /\ scheduler_running' = TRUE
    /\ scheduler_task' = NewTask
    /\ tasks' = [tasks EXCEPT ![NewTask] = [pos |-> "new", cycle |-> 0]]

\* lines 413-424
start_scheduler(interval_minutes) ==
    IF scheduler_running
    THEN UNCHANGED <<scheduler_running, scheduler_task, fetch_interval_minutes, tasks>>
    ELSE /\ NewTask <= MaxTasks
         /\ fetch_interval_minutes' = interval_minutes
         /\ scheduler_running' = TRUE
         /\ scheduler_task' = NewTask
         /\ tasks' = [tasks EXCEPT ![NewTask] = [pos |-> "new", cycle |-> 0]]

\* stop_scheduler without the cancel of line 433
stop_scheduler_uncancelled ==
    /\ scheduler_running' = FALSE
    /\ tasks' = tasks
    /\ scheduler_task' = 0

\* lines 427-435. Task.cancel() makes the task raise CancelledError at the await
\* it is suspended in (or at its first step): it runs no further line of
\* scheduler_loop. A task that has ended is not affected.
stop_scheduler ==
    /\ scheduler_running' = FALSE
    /\ tasks' = IF scheduler_task # 0 /\ Alive(scheduler_task)
                THEN [tasks EXCEPT ![scheduler_task].pos = "cancelled"]
                ELSE tasks
    /\ scheduler_task' = 0

\* lines 159-170
get_services ==
    IF viewer_service = 0
    THEN viewer_service' = 1 /\ data_service' = 1
    ELSE UNCHANGED <<viewer_service, data_service>>

\* lines 821-844: warm the caches up, then start the scheduler when the
\* configuration asks for it. No request is served before this has run.
on_startup(Intervals) ==
    /\ ~booted
    /\ booted' = TRUE
    /\ get_services
    /\ cache' = Filled(stored)
    /\ cat_cache' = Filled(stored)
    /\ \/ \* auto_fetch is off, or the configuration cannot be read
          UNCHANGED <<scheduler_running, scheduler_task, fetch_interval_minutes, tasks>>
       \/ \E fetch_interval \in Intervals : start_scheduler(fetch_interval)
    /\ UNCHANGED handlerVars
    /\ UNCHANGED <<metricVars, clock, ghostVars, last_fetch_time, stored, reads,
                   response, hist, cyc>>

\* lines 753-766; an interval out of range is refused by the Query validation
api_start_scheduler(Intervals) ==
    /\ booted
    /\ \E interval \in Intervals :
         IF InApiRange(interval)
         THEN /\ start_scheduler(IntervalOf(interval))
              /\ response' = [NoResponse EXCEPT !.op = "start", !.code = 200,
                                                !.interval = IntervalOf(interval)]
         ELSE /\ response' = [NoResponse EXCEPT !.op = "start", !.code = 422]
              /\ UNCHANGED <<scheduler_running, scheduler_task,
                             fetch_interval_minutes, tasks>>
    /\ UNCHANGED handlerVars
    /\ UNCHANGED <<metricVars, clock, serviceVars, cacheVars, ghostVars, booted,
                   last_fetch_time, stored, reads, hist, cyc>>

\* lines 769-776
api_stop_scheduler ==
    /\ booted
    /\ stop_scheduler
    /\ response' = [NoResponse EXCEPT !.op = "stop", !.code = 200]
    /\ UNCHANGED handlerVars
    /\ UNCHANGED <<metricVars, clock, serviceVars, cacheVars, ghostVars, booted,
                   fetch_interval_minutes, last_fetch_time, stored, reads, hist, cyc>>

\* lines 779-786
api_scheduler_status ==
    /\ booted
    /\ response' = [NoResponse EXCEPT !.op = "status", !.code = 200,
                                      !.running = scheduler_running,
                                      !.interval = fetch_interval_minutes,
                                      !.last = last_fetch_time]
    /\ UNCHANGED handlerVars
    /\ UNCHANGED <<metricVars, clock, schedVars, serviceVars, cacheVars, ghostVars,
                   last_fetch_time, stored, reads, hist, cyc>>

\* lines 405-406: a task that runs for the first time, or whose sleep is over,
\* tests _scheduler_running and awaits a new cycle
LoopRun(t) ==
    /\ tasks[t].pos \in {"new", "sleep"}
    /\ LoopThreadFree
    /\ IF scheduler_running
       THEN /\ CanStartCycle
            /\ SpawnCycle("loop", t)
            /\ tasks' = [tasks EXCEPT ![t] = [pos |-> "cycle", cycle |-> NewCycle]]
       ELSE /\ tasks' = [tasks EXCEPT ![t] = [pos |-> "exited", cycle |-> 0]]
            /\ UNCHANGED cyc
    /\ UNCHANGED handlerVars
    /\ UNCHANGED <<metricVars, clock, serviceVars, cacheVars, ghostVars, booted,
                   scheduler_running, scheduler_task, fetch_interval_minutes,
                   last_fetch_time, stored, reads, response, hist>>

\* lines 406-410: the awaited cycle has returned; sleep for the interval.
\* _fetch_interval_minutes * 60 of a value that is no number makes
\* asyncio.sleep raise, which ends the task.
LoopCycleDone(t) ==
    /\ tasks[t].pos = "cycle"
    /\ cyc[tasks[t].cycle].pc = "returned"
    /\ LoopThreadFree
    /\ cyc' = [cyc EXCEPT ![tasks[t].cycle].pc = "done"]
    /\ tasks' = [tasks EXCEPT ![t] =
                    [pos |-> IF fetch_interval_minutes.num THEN "sleep" ELSE "crashed",
                     cycle |-> 0]]
    /\ UNCHANGED handlerVars
    /\ UNCHANGED <<metricVars, clock, serviceVars, cacheVars, ghostVars, booted,
                   scheduler_running, scheduler_task, fetch_interval_minutes,
                   last_fetch_time, stored, reads, response, hist>>

\* lines 789-792: POST /api/fetch starts a cycle and awaits it. With Overlap
\* off, the request comes only when no other cycle is in flight.
api_fetch_now(Overlap) ==
    /\ booted
    /\ LoopThreadFree
    /\ CanStartCycle
    /\ Overlap \/ \A c \in UsedCycles : cyc[c].pc = "done"
    /\ SpawnCycle("api", 0)
    /\ UNCHANGED handlerVars
    /\ UNCHANGED <<metricVars, clock, schedVars, serviceVars, cacheVars, ghostVars,
                   last_fetch_time, stored, reads, response, hist>>

\* lines 793-797: the cycle has returned; clear the cache and send the result
api_fetch_done(c) ==
    /\ cyc[c].by = "api"
    /\ cyc[c].pc = "returned"
    /\ LoopThreadFree
    /\ cache' = Empty
    /\ hist' = [hist EXCEPT ![c].api_clears = @ + 1]
    /\ cyc' = [cyc EXCEPT ![c].pc = "done"]
    /\ response' = [NoResponse EXCEPT !.op = "fetch", !.code = 200,
                                      !.result = cyc[c].result]
    /\ UNCHANGED handlerVars
    /\ UNCHANGED <<metricVars, clock, schedVars, serviceVars, cat_cache, ghostVars,
                   last_fetch_time, stored, reads>>

\* ------------------------------------------------------------- derived views
\* A request handler (lines 530-547, 600-620) takes the services and calls
\* viewer_service.get_categorized_news, which runs on the event loop thread
\* without awaiting: one computation at a time, concurrent with the cycles'
\* threads. The caches are dropped and lazily rebuilt: a computation serves
\* the cached view when there is one, else loads the stored snapshot, derives
\* the view and caches it.
Reads == 1..MaxReads
NoRead == [pc |-> "idle", data |-> 0, result |-> 0, floor |-> 0]

\* history: the newest snapshot whose invalidation has returned
InvalidatedVersion ==
    LET done == {hist[c].version : c \in {d \in Cycles : hist[d].invalidated > 0}}
    IN IF done = {} THEN 0 ELSE CHOOSE v \in done : \A w \in done : w <= v

StartedReads == {r \in Reads : reads[r].pc # "idle"}

\* the handler starts: get_services()
ReadBegin ==
    /\ booted
    /\ Cardinality(StartedReads) < MaxReads
    /\ \A r \in StartedReads : reads[r].pc = "done"
    /\ get_services
    /\ reads' = [reads EXCEPT ![Cardinality(StartedReads) + 1] =
                    [NoRead EXCEPT !.pc = "lookup", !.floor = InvalidatedVersion]]
    /\ UNCHANGED handlerVars
    /\ UNCHANGED <<metricVars, clock, schedVars, cacheVars, ghostVars,
                   last_fetch_time, stored, response, hist, cyc>>

\* look the view up in the caches; on a miss load the stored snapshot
ReadLookup(r) ==
    /\ reads[r].pc = "lookup"
    /\ reads' = [reads EXCEPT ![r] =
                    IF cat_cache.has
                    THEN [@ EXCEPT !.pc = "done", !.result = cat_cache.ver]
                    ELSE [@ EXCEPT !.pc = "loaded",
                                   !.data = IF cache.has THEN cache.ver ELSE stored]]
    /\ UNCHANGED handlerVars
    /\ UNCHANGED <<metricVars, clock, schedVars, serviceVars, cacheVars, ghostVars,
                   last_fetch_time, stored, response, hist, cyc>>

\* derive the view from what was loaded, cache it and return it
ReadStore(r) ==
    /\ reads[r].pc = "loaded"
    /\ cache' = Filled(reads[r].data)
    /\ cat_cache' = Filled(reads[r].data)
    /\ reads' = [reads EXCEPT ![r] = [@ EXCEPT !.pc = "done", !.result = reads[r].data]]
    /\ UNCHANGED handlerVars
    /\ UNCHANGED <<metricVars, clock, schedVars, serviceVars, ghostVars,
                   last_fetch_time, stored, response, hist, cyc>>

\* ------------------------------------------------------------- presence
\* what the presence and metrics endpoints leave alone
coreVars == <<metricVars, clock, schedVars, serviceVars, cacheVars, ghostVars,
              last_fetch_time, stored, reads, response, hist, cyc, lockVars>>

\* str.strip() on the strings that occur here
Strip(s) ==
    CASE s = " " -> ""
      [] s = " s " -> "s"
      [] s = " a" -> "a"
      [] OTHER -> s

\* The JSON values a request may carry as session_id
JsonNull == [t |-> "null", s |-> "", n |-> 0]
JsonStr(s) == [t |-> "str", s |-> s, n |-> 0]
JsonNum(n) == [t |-> "num", s |-> "", n |-> n]
\* Python's truth value of a JSON value
Truthy(v) == (v.t = "str" /\ v.s # "") \/ (v.t = "num" /\ v.n # 0)

\* The bodies of POST /api/online/ping: bytes that are no JSON, a JSON object
\* without or with a session_id, and a JSON value that is no object
NoJson == [kind |-> "nojson", has |-> FALSE, session_id |-> JsonNull]
JsonObject(v) == [kind |-> "object", has |-> TRUE, session_id |-> v]
JsonEmptyObject == [kind |-> "object", has |-> FALSE, session_id |-> JsonNull]
JsonArray == [kind |-> "array", has |-> FALSE, session_id |-> JsonNull]
SessionStrings == {"", " ", "s", " s ", "t"}
PingBodies ==
    {NoJson, JsonEmptyObject, JsonArray}
        \cup {JsonObject(v) : v \in {JsonNull, JsonNum(0), JsonNum(7)}
                                      \cup {JsonStr(s) : s \in SessionStrings}}

\* line 671: a session is pruned when last seen more than a day before
PruneAge == 86400

\* the instants at which requests are served
Instants == {1000000 + d : d \in {0, 30, 60, 61, 300, 301, 330, 900, 901,
                                   86400, 86401, 90000}}
FirstInstant == CHOOSE t \in Instants : \A u \in Instants : t <= u

\* An optional query parameter of GET /api/fetch-metrics: None, or a string
NoFilter == [given |-> FALSE, s |-> ""]
Filter(s) == [given |-> TRUE, s |-> s]

\* a reply, with the parameters of the request it answers
NoReply == [op |-> "none", code |-> 0, detail |-> "", ok |-> FALSE,
            online_1m |-> 0, online_5m |-> 0, online_15m |-> 0, server_time |-> 0,
            limit |-> 0, platform |-> NoFilter, provider |-> NoFilter,
            metrics |-> <<>>, summary |-> <<>>]

\* INSERT OR REPLACE INTO online_sessions (session_id is the primary key)
Upsert(rows, session_id, last_seen) ==
    {r \in rows : r.session_id # session_id}
        \cup {[session_id |-> session_id, last_seen |-> last_seen]}
\* DELETE FROM online_sessions WHERE last_seen < ?
DeleteBefore(rows, cutoff) == {r \in rows : ~(r.last_seen < cutoff)}
\* SELECT COUNT(*) FROM online_sessions WHERE last_seen >= ?
CountSince(rows, cutoff) == Cardinality({r \in rows : r.last_seen >= cutoff})

\* lines 654-662: the body read as JSON ({} when it cannot be), then
\* (body.get("session_id") or "").strip(). A body that is no object has no
\* get, and a value that is true and no string has no strip: the handler
\* raises and the server answers 500.
PingRaises(body) ==
    \/ body.kind = "array"
    \/ /\ body.kind = "object" /\ body.has
       /\ Truthy(body.session_id) /\ body.session_id.t # "str"
PingSessionId(body) ==
    IF body.kind = "object" /\ body.has /\ body.session_id.t = "str"
    THEN Strip(body.session_id.s)
    ELSE ""

\* online_ping with the day-old rows left in the table
online_ping_unpruned(body) ==
    /\ IF PingRaises(body)
       THEN /\ reply' = [NoReply EXCEPT !.op = "ping", !.code = 500]
            /\ UNCHANGED online_sessions
       ELSE IF PingSessionId(body) = ""
       THEN /\ reply' = [NoReply EXCEPT !.op = "ping", !.code = 400,
                                        !.detail = "Missing session_id"]
            /\ UNCHANGED online_sessions
       ELSE /\ online_sessions' = Upsert(online_sessions, PingSessionId(body), now)
            /\ reply' = [NoReply EXCEPT !.op = "ping", !.code = 200, !.ok = TRUE]
    /\ UNCHANGED <<now, coreVars>>

\* lines 652-673
online_ping(body) ==
    /\ IF PingRaises(body)
       THEN /\ reply' = [NoReply EXCEPT !.op = "ping", !.code = 500]
            /\ UNCHANGED online_sessions
       ELSE IF PingSessionId(body) = ""
       THEN /\ reply' = [NoReply EXCEPT !.op = "ping", !.code = 400,
                                        !.detail = "Missing session_id"]
            /\ UNCHANGED online_sessions
       ELSE /\ online_sessions' =
                  DeleteBefore(Upsert(online_sessions, PingSessionId(body), now),
                               now - PruneAge)
            /\ reply' = [NoReply EXCEPT !.op = "ping", !.code = 200, !.ok = TRUE]
    /\ UNCHANGED <<now, coreVars>>

\* online_stats with the windows as disjoint buckets
online_stats_buckets ==
    /\ reply' = [NoReply EXCEPT
                    !.op = "stats", !.code = 200,
                    !.online_1m = CountSince(online_sessions, now - 60),
                    !.online_5m = CountSince(online_sessions, now - 5 * 60)
                                    - CountSince(online_sessions, now - 60),
                    !.online_15m = CountSince(online_sessions, now - 15 * 60)
                                    - CountSince(online_sessions, now - 5 * 60),
                    !.server_time = now]
    /\ UNCHANGED <<online_sessions, now, coreVars>>

\* lines 676-696
online_stats ==
    /\ reply' = [NoReply EXCEPT
                    !.op = "stats", !.code = 200,
                    !.online_1m = CountSince(online_sessions, now - 60),
                    !.online_5m = CountSince(online_sessions, now - 5 * 60),
                    !.online_15m = CountSince(online_sessions, now - 15 * 60),
                    !.server_time = now]
    /\ UNCHANGED <<online_sessions, now, coreVars>>

\* time passes
Tick ==
    /\ \E t \in Instants : t > now /\ now' = t
    /\ UNCHANGED <<online_sessions, reply, coreVars>>

\* ------------------------------------------------------------- the metrics query
\* lines 325, 327: `if provider:`, `if platform:` -- None and "" do not filter
Filters(f) == f.given /\ f.s # ""

\* m.get(k): a record that lacks the field gives None
FieldOr(m, k, none) == IF k \in DOMAIN m THEN m[k] ELSE none

\* lines 326, 328, 334: str(m.get(...) or "").strip(); a missing field is ""
ProviderOf(m) == Strip(FieldOr(m, "provider", ""))
PlatformIdOf(m) == Strip(m.platform_id)
PidOf(m) == IF PlatformIdOf(m) = "" THEN "unknown" ELSE PlatformIdOf(m)

\* lines 325-328
FilterItems(items, platform, provider) ==
    LET ByProvider(m) == ~Filters(provider) \/ ProviderOf(m) = provider.s
        ByPlatform(m) == ~Filters(platform) \/ PlatformIdOf(m) = platform.s
    IN SelectSeq(SelectSeq(items, ByProvider), ByPlatform)

\* the limit taken before the filters
QueryItemsLimitFirst(items, limit, platform, provider) ==
    FilterItems(LastN(items, limit), platform, provider)

\* lines 325-330: filter, then items[-limit:]
QueryItems(items, limit, platform, provider) ==
    LastN(FilterItems(items, platform, provider), limit)

\* lines 336-352: the entry opened for a platform at its first record
NewEntry(m) ==
    [platform_id |-> PidOf(m), provider |-> FieldOr(m, "provider", ""),
     success |-> 0, cache |-> 0, error |-> 0,
     dur_n |-> 0, dur_sum |-> 0, cnt_n |-> 0, cnt_sum |-> 0, chg_n |-> 0, chg_sum |-> 0,
     last_status |-> "", last_fetched_at |-> 0, last_changed_count |-> Unknown]

\* lines 354-382: one record added to its entry
AddRecord(ent, m) ==
    LET st == Strip(m.status)
        counted == [ent EXCEPT
                      !.success = IF st = "success" THEN @ + 1 ELSE @,
                      !.cache = IF st = "cache" THEN @ + 1 ELSE @,
                      !.error = IF st \notin {"success", "cache"} THEN @ + 1 ELSE @,
                      !.last_status = st,
                      !.last_fetched_at = m.fetched_at,
                      !.last_changed_count = m.changed_count]
        duration_ms == FieldOr(m, "duration_ms", Unknown)
        items_count == FieldOr(m, "items_count", Unknown)
        dur == IF duration_ms.known
               THEN [counted EXCEPT !.dur_n = @ + 1, !.dur_sum = @ + duration_ms.n]
               ELSE counted
        cnt == IF items_count.known
               THEN [dur EXCEPT !.cnt_n = @ + 1, !.cnt_sum = @ + items_count.n]
               ELSE dur
    IN IF m.changed_count.known
       THEN [cnt EXCEPT !.chg_n = @ + 1, !.chg_sum = @ + m.changed_count.n]
       ELSE cnt

\* lines 332-382: the entries in the order their platforms first appear
RECURSIVE Accumulate(_)
Accumulate(items) ==
    IF items = <<>> THEN <<>>
    ELSE LET before == Accumulate(SubSeq(items, 1, Len(items) - 1))
             m == items[Len(items)]
             at == {i \in DOMAIN before : before[i].platform_id = PidOf(m)}
         IN IF at = {}
            THEN Append(before, AddRecord(NewEntry(m), m))
            ELSE [i \in DOMAIN before |->
                    IF i \in at THEN AddRecord(before[i], m) ELSE before[i]]

\* line 392: int(ds / dn), of numbers that are not negative
IntMean(sum, n) == sum \div n
\* lines 394, 396: round(sum / n, 2), held in hundredths; with fewer than 8
\* records the quotient is never half-way between two hundredths
RoundedMean(sum, n) == (200 * sum + n) \div (2 * n)

\* an average that takes the records without the field as zeros
IntMeanOverAll(ent) ==
    IF ent.dur_n > 0
    THEN Known(ent.dur_sum \div (ent.success + ent.cache + ent.error))
    ELSE Unknown

\* lines 391-392
AvgDuration(ent) ==
    IF ent.dur_n > 0 THEN Known(IntMean(ent.dur_sum, ent.dur_n)) ELSE Unknown

\* lines 384-396: the sums dropped, the averages set where there is a count
Finalize(ent) ==
    [platform_id |-> ent.platform_id, provider |-> ent.provider,
     success |-> ent.success, cache |-> ent.cache, error |-> ent.error,
     avg_duration_ms |-> AvgDuration(ent),
     avg_items_count |->
        IF ent.cnt_n > 0 THEN Known(RoundedMean(ent.cnt_sum, ent.cnt_n)) ELSE Unknown,
     avg_changed_count |->
        IF ent.chg_n > 0 THEN Known(RoundedMean(ent.chg_sum, ent.chg_n)) ELSE Unknown,
     last_status |-> ent.last_status, last_fetched_at |-> ent.last_fetched_at,
     last_changed_count |-> ent.last_changed_count]

\* lines 332-396
Summary(items) ==
    LET acc == Accumulate(items) IN [i \in DOMAIN acc |-> Finalize(acc[i])]

\* lines 316-398; line 318: a limit outside 1.._FETCH_METRICS_MAX is refused
api_fetch_metrics(limit, platform, provider) ==
    /\ IF limit < 1 \/ limit > fetch_metrics_max
       THEN reply' = [NoReply EXCEPT !.op = "metrics", !.code = 422, !.limit = limit,
                                     !.platform = platform, !.provider = provider]
       ELSE LET items == QueryItems(fetch_metrics, limit, platform, provider)
            IN reply' = [NoReply EXCEPT !.op = "metrics", !.code = 200,
                                        !.limit = limit, !.platform = platform,
                                        !.provider = provider, !.metrics = items,
                                        !.summary = Summary(items)]
    /\ UNCHANGED <<online_sessions, now, coreVars>>

\* ------------------------------------------------------------- specifications
ConcCap == 1         \* capacity of the ring under Spec and SpecRead

\* The state of the module once imported (lines 65-69, 125-134), on a fresh
\* output directory
InitBase ==
    /\ fetch_metrics = <<>>
    /\ metrics_file = <<>>
    /\ last_platform_content_keys = NoSnapshots
    /\ clock = 0
    /\ scheduler_running = FALSE
    /\ scheduler_task = 0
    /\ fetch_interval_minutes = IntervalOf(30)
    /\ last_fetch_time = 0
    /\ viewer_service = 0
    /\ data_service = 0
    /\ booted = FALSE
    /\ tasks = [t \in Tasks |-> NoTask]
    /\ cyc = [c \in Cycles |-> FreeCycle]
    /\ stored = 0
    /\ cache = Empty
    /\ cat_cache = Empty
    /\ reads = [r \in Reads |-> NoRead]
    /\ response = NoResponse
    /\ hist = [c \in Cycles |-> NoHistory]
    /\ appended = <<>>
    /\ reported = NoSnapshots
    /\ observed = NoObservation
    /\ online_sessions = {}
    /\ now = FirstInstant
    /\ reply = NoReply
    /\ fetch_metrics_lock = "free"
    /\ thr = [t \in Threads |-> NoCall]

\* The state once on_startup has run with auto_fetch off
InitBooted ==
    /\ fetch_metrics = <<>>
    /\ metrics_file = <<>>
    /\ last_platform_content_keys = NoSnapshots
    /\ clock = 0
    /\ scheduler_running = FALSE
    /\ scheduler_task = 0
    /\ fetch_interval_minutes = IntervalOf(30)
    /\ last_fetch_time = 0
    /\ viewer_service = 1
    /\ data_service = 1
    /\ booted = TRUE
    /\ tasks = [t \in Tasks |-> NoTask]
    /\ cyc = [c \in Cycles |-> FreeCycle]
    /\ stored = 0
    /\ cache = Filled(0)
    /\ cat_cache = Filled(0)
    /\ reads = [r \in Reads |-> NoRead]
    /\ response = NoResponse
    /\ hist = [c \in Cycles |-> NoHistory]
    /\ appended = <<>>
    /\ reported = NoSnapshots
    /\ observed = NoObservation
    /\ online_sessions = {}
    /\ now = FirstInstant
    /\ reply = NoReply
    /\ fetch_metrics_lock = "free"
    /\ thr = [t \in Threads |-> NoCall]

\* The platforms the configuration file may hold when a cycle loads it
Configs == {{}, Platforms}

\* What the crawler may return: crawl_results (platform -> number of items)
\* and last_crawl_metrics
ItemsOf(p) == CASE p = "a" -> 5 [] p = "b" -> 3 [] OTHER -> 2
PlatformOrder == <<"a", "b", "c">>
MetricsFor(f) ==
    LET all == [i \in 1..Len(PlatformOrder) |->
                   [platform_id |-> PlatformOrder[i], platform_name |-> "hot",
                    status |-> f[PlatformOrder[i]],
                    keys |-> IF f[PlatformOrder[i]] = "success"
                             THEN KeyList(<<"k1">>) ELSE NoKeys]]
        Present(m) == m.status # "absent"
    IN SelectSeq(all, Present)
CrawlOutcomes(ps) ==
    {[results |-> [p \in S |-> ItemsOf(p)], metrics |-> MetricsFor(f)] :
        S \in SUBSET ps, f \in [Platforms -> {"absent"} \cup Statuses]}
\* under concurrency: at most platform "a", at most its one metric
ConcOutcomes ==
    {o \in CrawlOutcomes({"a"}) :
        /\ \A i \in DOMAIN o.metrics : o.metrics[i].platform_id = "a"
        /\ (DOMAIN o.results = {}) = (o.metrics = <<>>)}
\* one cycle after the other: results of "a" and "b", metrics of all three
RichOutcomes == CrawlOutcomes({"a", "b"})

\* -------- Spec: the scheduler, its loop tasks and the cycles they run
Init == InitBase /\ fetch_metrics_max = ConcCap
Next ==
    \/ on_startup(ConfigIntervals)
    \/ api_start_scheduler(ApiIntervals)
    \/ api_stop_scheduler
    \/ api_scheduler_status
    \/ \E t \in Tasks : LoopRun(t)
    \/ \E t \in Tasks : LoopCycleDone(t)
    \/ \E c \in Cycles : CycleStep(c, Configs, ConcOutcomes, FALSE)
Spec == Init /\ [][Next]_vars

\* -------- SpecFetch: cycles of the scheduler and of POST /api/fetch, which
\* may overlap
NextFetch ==
    \/ on_startup({IntervalOf(30)})
    \/ api_start_scheduler({5})
    \/ api_stop_scheduler
    \/ api_fetch_now(TRUE)
    \/ \E c \in Cycles : api_fetch_done(c)
    \/ \E t \in Tasks : LoopRun(t)
    \/ \E t \in Tasks : LoopCycleDone(t)
    \/ \E c \in Cycles : CycleStep(c, Configs, ConcOutcomes, FALSE)
SpecFetch == Init /\ [][NextFetch]_vars

\* -------- SpecCycle: cycles fetched on demand, one after the other, over
\* every crawl outcome, without I/O errors on the metrics file
InitCycle == InitBooted /\ fetch_metrics_max = MaxCap
NextCycle ==
    \/ api_fetch_now(FALSE)
    \/ \E c \in Cycles : api_fetch_done(c)
    \/ \E c \in Cycles : CycleStep(c, Configs, RichOutcomes, FALSE)
SpecCycle == InitCycle /\ [][NextCycle]_vars

\* -------- SpecRead: derived-view computations against on-demand cycles
InitRead == InitBooted /\ fetch_metrics_max = ConcCap
NextRead ==
    \/ ReadBegin
    \/ \E r \in Reads : ReadLookup(r)
    \/ \E r \in Reads : ReadStore(r)
    \/ api_fetch_now(FALSE)
    \/ \E c \in Cycles : api_fetch_done(c)
    \/ \E c \in Cycles : CycleStep(c, Configs, ConcOutcomes, FALSE)
SpecRead == InitRead /\ [][NextRead]_vars

\* -------- SpecPresence: heartbeats and statistics as time passes
InitPresence == InitBooted /\ fetch_metrics_max = ConcCap
NextPresence ==
    \/ \E body \in PingBodies : online_ping(body)
    \/ online_stats
    \/ Tick
SpecPresence == InitPresence /\ [][NextPresence]_vars

\* -------- SpecQuery: a metrics query over every content of the ring
\* what a record may hold besides its platform: a status and three numbers,
\* each of which may be missing
RecordShapes ==
    {[provider |-> "p", status |-> "success", duration_ms |-> Known(1),
      items_count |-> Known(3), changed_count |-> Known(1)],
     [provider |-> "", status |-> "error", duration_ms |-> Known(2),
      items_count |-> Unknown, changed_count |-> Known(0)],
     [provider |-> "p", status |-> "timeout", duration_ms |-> Unknown,
      items_count |-> Known(4), changed_count |-> Unknown]}
QueryRecords ==
    {[platform_id |-> id, provider |-> sh.provider, status |-> sh.status,
      fetched_at |-> clock + 1, duration_ms |-> sh.duration_ms,
      items_count |-> sh.items_count, changed_count |-> sh.changed_count] :
        id \in {"a", " a", "b", ""}, sh \in RecordShapes}
PlatformFilters == {NoFilter, Filter(""), Filter("a"), Filter(" a"), Filter("b")}
ProviderFilters == {NoFilter, Filter("p")}

\* _record_fetch_metrics of one record, while the ring is not full; the ring
\* is filled first and queried afterwards
MetricsAppend ==
    /\ Len(fetch_metrics) < fetch_metrics_max
    /\ reply.op = "none"
    /\ \E m \in QueryRecords :
         fetch_metrics' = RecordFetchMetrics(fetch_metrics, <<m>>, fetch_metrics_max)
    /\ clock' = clock + 1
    /\ UNCHANGED handlerVars
    /\ UNCHANGED <<fetch_metrics_max, metrics_file, last_platform_content_keys,
                   schedVars, serviceVars, cacheVars, ghostVars, last_fetch_time,
                   stored, reads, response, hist, cyc>>

MetricsQuery ==
    /\ reply.op = "none"
    /\ \E limit \in 0..(fetch_metrics_max + 1), platform \in PlatformFilters,
          provider \in ProviderFilters :
           api_fetch_metrics(limit, platform, provider)

InitQuery == InitBooted /\ fetch_metrics_max = MaxCap
NextQuery == MetricsAppend \/ MetricsQuery
SpecQuery == InitQuery /\ [][NextQuery]_vars

\* -------- SpecLog: cycles fetched on demand, one after the other, with I/O
\* errors on the metrics file
LogCap == 2
\* results of "a" and "b" and their metrics, which fill the ring of LogCap
LogOutcomes ==
    {o \in CrawlOutcomes({"a", "b"}) :
        \A i \in DOMAIN o.metrics : o.metrics[i].platform_id \in {"a", "b"}}
InitLog == InitBooted /\ fetch_metrics_max = LogCap
NextLog ==
    \/ api_fetch_now(FALSE)
    \/ \E c \in Cycles : api_fetch_done(c)
    \/ \E c \in Cycles : CycleStep(c, Configs, LogOutcomes, TRUE)
SpecLog == InitLog /\ [][NextLog]_vars

\* -------- SpecOverlap: cycles fetched on demand that may overlap, and the
\* metrics query between their steps
OverlapCap == 3
\* a crawl that found nothing, or one that reports both "a" and "b", with
\* results for those that succeeded
OverlapOutcomes ==
    {o \in LogOutcomes :
        /\ Len(o.metrics) \in {0, 2}
        /\ (DOMAIN o.results = {}) = (o.metrics = <<>>)
        /\ \A i \in DOMAIN o.metrics :
              (o.metrics[i].status = "success") = (o.metrics[i].platform_id \in DOMAIN o.results)}
\* GET /api/fetch-metrics for the whole ring, without filters
QueryAll ==
    /\ booted
    /\ api_fetch_metrics(fetch_metrics_max, NoFilter, NoFilter)
InitOverlap == InitBooted /\ fetch_metrics_max = OverlapCap
NextOverlap ==
    \/ api_fetch_now(TRUE)
    \/ \E c \in Cycles : api_fetch_done(c)
    \/ \E c \in Cycles : CycleStep(c, Configs, OverlapOutcomes, FALSE)
    \/ QueryAll
SpecOverlap == InitOverlap /\ [][NextOverlap]_vars

\* -------- SpecRing: the ring and the log under batches appended one after
\* the other, for every capacity 1..MaxCap
BatchRecords ==
    [platform_id : {"a", "b"}, platform_name : Names, status : {"success"},
     fetched_at : {clock + 1}, changed_count : {Unknown}]

RingAppend ==
    /\ Len(appended) < MaxAppends
    /\ \E k \in 1..Min(MaxBatch, MaxAppends - Len(appended)) :
         \E batch \in [1..k -> BatchRecords] :
            /\ fetch_metrics' = RecordFetchMetrics(fetch_metrics, batch, fetch_metrics_max)
            /\ metrics_file' = AppendFetchMetricsBatch(metrics_file, batch, fetch_metrics_max)
            /\ appended' = appended \o batch
    /\ clock' = clock + 1
    /\ UNCHANGED handlerVars
    /\ UNCHANGED <<fetch_metrics_max, last_platform_content_keys, schedVars,
                   serviceVars, cacheVars, reported, observed, last_fetch_time,
                   stored, reads, response, hist, cyc>>

InitRing == InitBase /\ fetch_metrics_max \in 1..MaxCap
NextRing == RingAppend
SpecRing == InitRing /\ [][NextRing]_vars

\* -------- SpecChange: the change detector under observations made one
\* after the other
ObsKeyLists == SeqsUpTo({"k1", "k2"}, MaxKeys)

Observe ==
    /\ observed.n < MaxObs
    /\ \E m \in MetricDicts({"a", "b", ""}, {"hot"}, ObsKeyLists) :
         /\ observed' = [m |-> m,
                         changed |-> MetricChanged(m, last_platform_content_keys),
                         prev |-> IF m.platform_id = "" THEN NoKeys
                                  ELSE reported[m.platform_id],
                         n |-> observed.n + 1]
         /\ last_platform_content_keys' = SnapshotsAfter(m, last_platform_content_keys)
         /\ reported' = IF m.platform_id # "" /\ m.keys.has
                        THEN [reported EXCEPT ![m.platform_id] = m.keys]
                        ELSE reported
    /\ UNCHANGED handlerVars
    /\ UNCHANGED <<fetch_metrics_max, fetch_metrics, metrics_file, clock, schedVars,
                   serviceVars, cacheVars, appended, last_fetch_time, stored, reads,
                   response, hist, cyc>>

InitChange == InitBase /\ fetch_metrics_max = ConcCap
NextChange == Observe
SpecChange == InitChange /\ [][NextChange]_vars

\* -------- SpecLock: the critical sections of _fetch_metrics_lock, one line
\* at a time, with two threads recording a batch each and the event loop
\* answering metrics queries
LockBatches == UNION {[1..k -> BatchRecords] : k \in 0..MaxBatch}

\* _record_fetch_metrics is called with a batch; line 98: an empty batch
\* returns at once
RecordCall(w) ==
    /\ thr[w].pc = "idle"
    /\ \E batch \in LockBatches :
         thr' = [thr EXCEPT ![w] = [NoCall EXCEPT
                    !.pc = IF batch = <<>> THEN "done" ELSE "acquire",
                    !.batch = batch, !.stamp = clock + 1]]
    /\ clock' = clock + 1
    /\ UNCHANGED <<online_sessions, now, reply, fetch_metrics_lock>>
    /\ UNCHANGED <<metricVars, schedVars, serviceVars, cacheVars, ghostVars,
                   last_fetch_time, stored, reads, response, hist, cyc>>

\* line 101 without the lock: the thread goes on to the appends at once
RecordAcquireUnlocked(w) ==
    /\ thr[w].pc = "acquire"
    /\ thr' = [thr EXCEPT ![w].pc = "append"]
    /\ UNCHANGED <<online_sessions, now, reply, fetch_metrics_lock>>
    /\ UNCHANGED <<metricVars, clock, schedVars, serviceVars, cacheVars, ghostVars,
                   last_fetch_time, stored, reads, response, hist, cyc>>

\* line 101: `with _fetch_metrics_lock:` waits until the lock is free
RecordAcquire(w) ==
    /\ thr[w].pc = "acquire"
    /\ fetch_metrics_lock = "free"
    /\ fetch_metrics_lock' = w
    /\ thr' = [thr EXCEPT ![w].pc = "append"]
    /\ UNCHANGED <<online_sessions, now, reply>>
    /\ UNCHANGED <<metricVars, clock, schedVars, serviceVars, cacheVars, ghostVars,
                   last_fetch_time, stored, reads, response, hist, cyc>>

\* lines 102-103: one _fetch_metrics.append(m)
RecordAppend(w) ==
    /\ thr[w].pc = "append"
    /\ thr[w].j <= Len(thr[w].batch)
    /\ fetch_metrics' = RecordFetchMetrics(fetch_metrics, <<thr[w].batch[thr[w].j]>>,
                                           fetch_metrics_max)
    /\ thr' = [thr EXCEPT ![w].j = @ + 1]
    /\ UNCHANGED <<online_sessions, now, reply, fetch_metrics_lock>>
    /\ UNCHANGED <<fetch_metrics_max, metrics_file, last_platform_content_keys, clock,
                   schedVars, serviceVars, cacheVars, ghostVars, last_fetch_time,
                   stored, reads, response, hist, cyc>>

\* the end of the with block of line 101
RecordRelease(w) ==
    /\ thr[w].pc = "append"
    /\ thr[w].j > Len(thr[w].batch)
    /\ fetch_metrics_lock' = "free"
    /\ thr' = [thr EXCEPT ![w].pc = "done"]
    /\ UNCHANGED <<online_sessions, now, reply>>
    /\ UNCHANGED <<metricVars, clock, schedVars, serviceVars, cacheVars, ghostVars,
                   last_fetch_time, stored, reads, response, hist, cyc>>

\* line 322: api_fetch_metrics takes the lock
QueryAcquire ==
    /\ thr["q"].pc \in {"idle", "done"}
    /\ fetch_metrics_lock = "free"
    /\ fetch_metrics_lock' = "q"
    /\ thr' = [thr EXCEPT !["q"].pc = "locked"]
    /\ UNCHANGED <<online_sessions, now, reply>>
    /\ UNCHANGED <<metricVars, clock, schedVars, serviceVars, cacheVars, ghostVars,
                   last_fetch_time, stored, reads, response, hist, cyc>>

\* line 323: items = list(_fetch_metrics), and the end of the with block
QueryCopy ==
    /\ thr["q"].pc = "locked"
    /\ fetch_metrics_lock' = "free"
    /\ thr' = [thr EXCEPT !["q"] = [@ EXCEPT !.pc = "done", !.items = fetch_metrics,
                                               !.n = 1]]
    /\ UNCHANGED <<online_sessions, now, reply>>
    /\ UNCHANGED <<metricVars, clock, schedVars, serviceVars, cacheVars, ghostVars,
                   last_fetch_time, stored, reads, response, hist, cyc>>

InitLock == InitBooted /\ fetch_metrics_max = MaxCap
NextLock ==
    \/ \E w \in Writers : RecordCall(w)
    \/ \E w \in Writers : RecordAcquire(w)
    \/ \E w \in Writers : RecordAppend(w)
    \/ \E w \in Writers : RecordRelease(w)
    \/ QueryAcquire
    \/ QueryCopy
SpecLock == InitLock /\ [][NextLock]_vars

\* ------------------------------------------------------------- claims
ActiveLoops == {t \in Tasks : Alive(t)}
InFlight(c) == cyc[c].pc \notin {"free", "returned", "done"}

\* C1: in every reachable state at most one scheduler loop task is alive, and
\* an alive loop is the one _scheduler_task names while the scheduler is
\* running; so a start() while running has not spawned a second loop, and at
\* most one alive loop is awaiting an ingestion cycle.
C1_OneLoop ==
    /\ Cardinality(ActiveLoops) <= 1
    /\ \A t \in ActiveLoops : scheduler_running /\ scheduler_task = t
    /\ Cardinality({c \in Cycles : /\ cyc[c].by = "loop"
                                   /\ cyc[c].pc \notin {"free", "done"}
                                   /\ Alive(cyc[c].task)
                                   /\ tasks[cyc[c].task].cycle = c}) <= 1

\* start() was asked with another interval while the scheduler was running,
\* and the one loop is awaiting its cycle
C1_Witness ==
    /\ response.op = "start" /\ response.code = 200
    /\ scheduler_running
    /\ response.interval # fetch_interval_minutes
    /\ \E t \in ActiveLoops : tasks[t].pos = "cycle" /\ InFlight(tasks[t].cycle)

\* C2: a stop() leaves the scheduler not running with no task handle and no
\* alive loop, whatever the loop was doing (not yet run, cycle in flight,
\* sleeping); a cancelled loop never leaves that state and no cycle is ever
\* started by a loop that is not alive; a status() that follows a stop()
\* reports running = false; and a stop() of an idle scheduler changes nothing
\* of the scheduler.
C2_StopStops ==
    [][ /\ api_stop_scheduler =>
            /\ ~scheduler_running'
            /\ scheduler_task' = 0
            /\ \A t \in Tasks : tasks'[t].pos \notin {"new", "cycle", "sleep"}
            /\ \A t \in Tasks : Alive(t) => tasks'[t].pos = "cancelled"
        /\ \A t \in Tasks : tasks[t].pos = "cancelled" => tasks'[t].pos = "cancelled"
        /\ \A c \in Cycles :
              (cyc[c].pc = "free" /\ cyc'[c].pc # "free" /\ cyc'[c].by = "loop")
                  => Alive(cyc'[c].task) /\ scheduler_running
        /\ (response.op = "stop" /\ response'.op = "status") => ~response'.running
        /\ (api_stop_scheduler /\ ~scheduler_running /\ scheduler_task = 0)
              => UNCHANGED <<schedVars, last_fetch_time, cyc>>
      ]_vars

\* the loop was stopped while its cycle was in flight, and status() was asked
\* next
C2_Witness ==
    /\ response.op = "status" /\ ~response.running
    /\ \E t \in Tasks : /\ tasks[t].pos = "cancelled"
                        /\ \E c \in Cycles : cyc[c].task = t /\ InFlight(c)

\* C3 (as stated): every cache clear made for a cycle, by the cycle or by the
\* handler that awaited it, comes after that cycle has saved its snapshot and
\* recorded its metrics.
C3_ClearOnlyAfterSave ==
    \A c \in Cycles :
        (hist[c].clears > 0 \/ hist[c].invalidated > 0 \/ hist[c].api_clears > 0)
            => hist[c].persisted /\ hist[c].recorded

\* C3 (amended): inside a cycle, the caches are cleared and the services reset
\* only after the cycle has saved its snapshot, and its metrics were given to
\* the ring (and the log write attempted) before the save; the clear made by
\* api_fetch_now comes after the cycle has returned, whatever its result.
C3_CycleClearsAfterSave ==
    \A c \in Cycles :
        /\ (hist[c].clears > 0 \/ hist[c].invalidated > 0 \/ hist[c].set_last)
              => hist[c].persisted
        /\ hist[c].persisted => hist[c].metrics_first /\ hist[c].recorded
        /\ hist[c].persisted => cyc[c].pc \notin {"config", "crawl", "loop",
                                                  "log_append", "log_read", "log_rewrite"}
        /\ hist[c].api_clears > 0 => cyc[c].by = "api" /\ cyc[c].pc = "done"

\* a cycle of the scheduler has invalidated the caches while an on-demand
\* cycle, which will fail, is in flight; and an on-demand cycle that failed
\* without saving has had the cache cleared by its handler
C3_Witness ==
    \E c, d \in Cycles :
        /\ cyc[c].by = "loop" /\ hist[c].invalidated = 1 /\ hist[c].persisted
        /\ cyc[d].by = "api" /\ hist[d].api_clears = 1 /\ ~hist[d].persisted

\* C8 (as stated): a finished successful cycle has had the cache cleared
\* exactly once, on either path.
C8_ExactlyOneClear ==
    \A c \in Cycles :
        (cyc[c].pc = "done" /\ cyc[c].result.success)
            => hist[c].clears + hist[c].api_clears = 1

\* C8 (amended): a cycle that returns success has cleared the cache and reset
\* the services exactly once itself, one that returns failure not at all, on
\* either path; the handler of POST /api/fetch clears the cache once more
\* after any cycle it awaited, the scheduler loop never.
C8_OneInvalidationPerCycle ==
    \A c \in Cycles :
        /\ (Finished(c) /\ cyc[c].result.success)
              => hist[c].clears = 1 /\ hist[c].invalidated = 1
        /\ (Finished(c) /\ ~cyc[c].result.success)
              => hist[c].clears = 0 /\ hist[c].invalidated = 0
        /\ ~Finished(c) => hist[c].clears <= 1 /\ hist[c].invalidated = 0
        /\ hist[c].api_clears =
              (IF cyc[c].by = "api" /\ cyc[c].pc = "done" THEN 1 ELSE 0)

\* a successful cycle of the scheduler and a successful on-demand cycle have
\* both finished
C8_Witness ==
    \E c, d \in Cycles :
        /\ cyc[c].by = "loop" /\ cyc[c].pc = "done" /\ cyc[c].result.success
        /\ cyc[d].by = "api" /\ cyc[d].pc = "done" /\ cyc[d].result.success

\* C4: no stale post-invalidation read: a derived-view computation that starts
\* after the invalidation of a successful cycle has returned serves a view of
\* that cycle's snapshot or of a newer one, also when a computation that began
\* before the invalidation stores its result after it.
C4_NoStaleRead ==
    \A r \in Reads : reads[r].pc = "done" => reads[r].result >= reads[r].floor

\* C5: for every capacity N, after any sequence of batch appends, the ring and
\* the log each hold the last N records appended, in arrival order (all of
\* them while no more than N were appended).
C5_LastNRetained ==
    /\ fetch_metrics = LastN(appended, fetch_metrics_max)
    /\ RecordsOf(metrics_file) = LastN(appended, fetch_metrics_max)

\* C6: for the observations of one source made one after the other, the
\* changed_count given to an observation is the number of its keys that the
\* previous snapshot of the source lacks, in whatever order the keys come: all
\* K keys on the first observation, 0 when the keys are those of a non-empty
\* previous snapshot, J when J new keys follow the unchanged previous ones.
C6_ChangedCount ==
    (observed.n > 0 /\ observed.m.platform_id # "" /\ observed.m.keys.has) =>
        LET cur == observed.m.keys.list
            prev == observed.prev
            base == Len(prev.list)
        IN /\ observed.changed.known
           /\ observed.changed.n =
                 Cardinality({i \in DOMAIN cur : cur[i] \notin Range(prev.list)})
           /\ ~prev.has => observed.changed.n = Len(cur)
           /\ (prev.has /\ prev.list # <<>> /\ Range(cur) = Range(prev.list))
                 => observed.changed.n = 0
           /\ (/\ prev.has
               /\ Len(cur) >= base
               /\ Range(SubSeq(cur, 1, base)) = Range(prev.list)
               /\ \A i \in (base + 1)..Len(cur) : cur[i] \notin Range(prev.list))
                 => observed.changed.n = Len(cur) - base

\* the source was seen with keys k2, k1 and is seen again with k1, k2: the same
\* keys in another order, none changed
C6_Witness ==
    /\ observed.n > 1
    /\ observed.prev = KeyList(<<"k2", "k1">>)
    /\ observed.m.keys = KeyList(<<"k1", "k2">>)
    /\ observed.changed = Known(0)

\* what the sources S hold in all, counted source by source
ItemsIn(S) ==
    (IF "a" \in S THEN 5 ELSE 0) + (IF "b" \in S THEN 3 ELSE 0)
        + (IF "c" \in S THEN 2 ELSE 0)

\* the step in which cycle c hands its metrics to the ring
Records(c) == ~hist[c].recorded /\ hist'[c].recorded

\* the last records of the ring are those of cycle c: its time, the statuses
\* the crawler reported, in the order reported
RingEndsWith(ring, c) ==
    LET m == Len(hist[c].statuses)
        k == Min(m, fetch_metrics_max)
        tail == LastN(ring, k)
    IN /\ Len(ring) >= k
       /\ \A i \in 1..k : /\ tail[i].status = hist[c].statuses[m - k + i]
                          /\ tail[i].fetched_at = cyc[c].now_str

\* C7: a cycle whose crawler returned results for s >= 1 sources holding t
\* items in all, together with m metrics, and whose snapshot was saved, returns
\* success with s sources and t items; the ring gains the m records, with the
\* statuses reported.
C7_CycleResult ==
    [][\A c \in Cycles :
         /\ Records(c) =>
               /\ Len(fetch_metrics') =
                     Min(Len(fetch_metrics) + Len(hist[c].statuses), fetch_metrics_max)
               /\ RingEndsWith(fetch_metrics', c)
               /\ Len(fetch_metrics) + Len(hist[c].statuses) <= fetch_metrics_max
                     => SubSeq(fetch_metrics', 1, Len(fetch_metrics)) = fetch_metrics
         /\ (hist'[c].persisted /\ cyc'[c].pc \in {"returned", "done"}) =>
               /\ hist'[c].sources # {}
               /\ hist'[c].recorded
               /\ cyc'[c].result = Success(Cardinality(hist'[c].sources),
                                           ItemsIn(hist'[c].sources))
    ]_vars

\* three sources configured, two crawled with 5 and 3 items, one failed: the
\* cycle has returned 2 sources and 8 items and the ring holds its 3 records
C7_Witness ==
    \E c \in Cycles :
        /\ cyc[c].pc = "done"
        /\ hist[c].n_platforms = 3
        /\ hist[c].statuses = <<"success", "success", "error">>
        /\ cyc[c].result = Success(2, 8)
        /\ Len(fetch_metrics) = 3
        /\ \A i \in 1..3 : /\ fetch_metrics[i].status = hist[c].statuses[i]
                           /\ fetch_metrics[i].fetched_at = cyc[c].now_str

\* the step in which cycle c finds its configuration without platforms
FindsNoPlatforms(c) == ~hist[c].loaded /\ hist'[c].loaded /\ hist'[c].n_platforms = 0

\* C9: a cycle that finds no platform configured returns a failure with an
\* error, without calling the crawler and without touching the ring, the log,
\* the snapshots of the change detector, last_fetch_time or the caches.
C9_NoPlatforms ==
    [][\A c \in Cycles :
         /\ FindsNoPlatforms(c) =>
               /\ cyc'[c].pc = "returned"
               /\ UNCHANGED <<fetch_metrics, metrics_file, last_platform_content_keys,
                              last_fetch_time, cache, cat_cache, viewer_service,
                              data_service, stored>>
         /\ (hist'[c].loaded /\ hist'[c].n_platforms = 0) =>
               /\ cyc'[c].pc \in {"returned", "done"}
               /\ ~cyc'[c].result.success
               /\ cyc'[c].result.error = "no_platforms"
               /\ ~hist'[c].crawled /\ ~hist'[c].recorded /\ ~hist'[c].logged
               /\ ~hist'[c].persisted /\ ~hist'[c].set_last
               /\ hist'[c].clears = 0 /\ hist'[c].invalidated = 0
    ]_vars

\* after a cycle that filled the ring, the log and the caches' version, a cycle
\* has found no platform and returned
C9_Witness ==
    \E c, d \in Cycles :
        /\ hist[d].persisted /\ cyc[d].pc = "done" /\ fetch_metrics # <<>>
        /\ metrics_file # <<>> /\ last_fetch_time > 0
        /\ hist[c].loaded /\ hist[c].n_platforms = 0
        /\ cyc[c].pc = "returned" /\ cyc[c].result = Failure("no_platforms")

\* the step in which the crawler or the storage raises in cycle c
Raises(c) == hist[c].raised = "none" /\ hist'[c].raised \in {"crawler", "storage"}

\* C10: when the crawler or the storage raises in a cycle, the cycle returns a
\* failure with the error and raises nothing; the records it had given to the
\* ring stay there as they were, last_fetch_time is not set and the cycle
\* clears no cache.
C10_CollaboratorError ==
    [][\A c \in Cycles :
         /\ Raises(c) =>
               /\ cyc'[c].pc = "returned"
               /\ UNCHANGED <<fetch_metrics, metrics_file, last_platform_content_keys,
                              last_fetch_time, cache, cat_cache, viewer_service,
                              data_service, stored>>
               /\ hist'[c].raised = "storage" =>
                     hist[c].recorded /\ RingEndsWith(fetch_metrics', c)
         /\ hist'[c].raised \in {"crawler", "storage"} =>
               /\ cyc'[c].pc \in {"returned", "done"}
               /\ ~cyc'[c].result.success
               /\ cyc'[c].result.error =
                     (IF hist'[c].raised = "crawler" THEN "crawl_error" ELSE "storage_error")
               /\ ~hist'[c].persisted /\ ~hist'[c].set_last
               /\ hist'[c].clears = 0 /\ hist'[c].invalidated = 0
    ]_vars

\* the storage has raised in a cycle that had given three records to the ring,
\* and the crawler in another
C10_Witness ==
    \E c, d \in Cycles :
        /\ hist[c].raised = "storage" /\ cyc[c].pc = "done"
        /\ Len(hist[c].statuses) = 3
        /\ \A i \in 1..3 : fetch_metrics[i].fetched_at = cyc[c].now_str
        /\ Len(fetch_metrics) = 3
        /\ hist[d].raised = "crawler" /\ cyc[d].pc = "returned"

\* C11: a cycle that ends, with success or failure, never ends the loop that
\* awaited it: as long as the scheduler is running with that loop, the loop
\* goes from its cycle to its interval wait, and from the wait to a new cycle.
C11_LoopSurvivesCycle ==
    [][\A t \in Tasks :
         (scheduler_running /\ scheduler_task = t /\ scheduler_running'
            /\ scheduler_task' = t /\ tasks'[t] # tasks[t]) =>
              /\ tasks[t].pos = "cycle" => tasks'[t].pos = "sleep"
              /\ tasks[t].pos \in {"new", "sleep"} => tasks'[t].pos = "cycle"
    ]_vars

\* a heartbeat that carries no session_id, an empty one or only white space
MissingSessionId(body) ==
    \/ body.kind # "object"
    \/ ~body.has
    \/ body.session_id.t = "null"
    \/ body.session_id.t = "str" /\ body.session_id.s \in {"", " "}

\* C12: a heartbeat whose session_id is missing, empty or white space is
\* answered 400 with detail "Missing session_id", and no session is inserted,
\* updated or pruned.
C12_MissingRejected ==
    [][\A body \in PingBodies :
         (online_ping(body) /\ MissingSessionId(body)) =>
              /\ reply'.code = 400
              /\ reply'.detail = "Missing session_id"
              /\ UNCHANGED online_sessions
    ]_vars

\* a heartbeat with a session_id that is a string with more than white space
NamedSession(body) ==
    /\ body.kind = "object" /\ body.has
    /\ body.session_id.t = "str" /\ body.session_id.s \notin {"", " "}

DaySeconds == 24 * 60 * 60

\* C13: after a heartbeat with a non-empty session_id served at time now, the
\* table holds exactly one row for that session, last seen now, and no row
\* last seen more than 24 hours before now; the other rows not older than 24
\* hours are as they were and no other row has appeared.
C13_HeartbeatUpsertsAndPrunes ==
    [][\A body \in PingBodies :
         (online_ping(body) /\ NamedSession(body)) =>
            LET sid == Strip(body.session_id.s)
                mine == {r \in online_sessions' : r.session_id = sid}
            IN /\ reply'.code = 200
               /\ mine = {[session_id |-> sid, last_seen |-> now]}
               /\ \A r \in online_sessions' : r.last_seen >= now - DaySeconds
               /\ \A r \in online_sessions :
                     (r.session_id # sid /\ r.last_seen >= now - DaySeconds)
                        => r \in online_sessions'
               /\ \A r \in online_sessions' : r.session_id # sid => r \in online_sessions
    ]_vars

\* 25 hours after the start a heartbeat of "s" has been served: its row is
\* the only one of "s", and the row of "t", an hour old, is still there
C13_Witness ==
    /\ reply.op = "ping" /\ reply.code = 200
    /\ now = FirstInstant + 90000
    /\ online_sessions = {[session_id |-> "s", last_seen |-> now],
                          [session_id |-> "t", last_seen |-> FirstInstant + 86400]}

\* C14: the statistics served at time now count, for each window of 60, 300
\* and 900 seconds, the rows last seen no earlier than now minus the window,
\* over the same rows, so that online_1m <= online_5m <= online_15m; serving
\* them changes no row.
C14_StatsWindows ==
    [][online_stats =>
         /\ reply'.online_1m =
               Cardinality({r \in online_sessions : now - r.last_seen <= 60})
         /\ reply'.online_5m =
               Cardinality({r \in online_sessions : now - r.last_seen <= 300})
         /\ reply'.online_15m =
               Cardinality({r \in online_sessions : now - r.last_seen <= 900})
         /\ reply'.online_1m <= reply'.online_5m
         /\ reply'.online_5m <= reply'.online_15m
         /\ reply'.server_time = now
         /\ UNCHANGED online_sessions
    ]_vars

\* one session was seen 30 seconds ago and another 5 minutes ago: the first
\* counts in the three windows, the second in the last two
C14_Witness ==
    /\ reply.op = "stats" /\ reply.server_time = now
    /\ reply.online_1m = 1 /\ reply.online_5m = 2 /\ reply.online_15m = 2
    /\ \E r \in online_sessions : now - r.last_seen = 30
    /\ \E r \in online_sessions : now - r.last_seen = 300

\* the step of a metrics query that is served
Queried == reply.op = "none" /\ reply'.op = "metrics" /\ reply'.code = 200

\* C15 (as stated): a metrics query returns the last `limit` records, in the
\* order appended, of the records of the ring whose source id and provider
\* equal the filters given, and leaves the ring as it was.
C15_ExactFilters ==
    [][Queried =>
         LET platform == reply'.platform
             provider == reply'.provider
             Asked(m) == /\ platform.given => m.platform_id = platform.s
                         /\ provider.given => m.provider = provider.s
         IN /\ reply'.metrics = LastN(SelectSeq(fetch_metrics, Asked), reply'.limit)
            /\ UNCHANGED fetch_metrics
    ]_vars

\* C15 (amended): a metrics query returns the last `limit` records, in the
\* order appended, of the records of the ring whose source id and provider,
\* taken as strings without the white space around them, equal the filters
\* that are given and not empty; the filters come before the limit and the
\* ring is left as it was.
C15_TrimmedFilters ==
    [][Queried =>
         LET platform == reply'.platform
             provider == reply'.provider
             Trimmed(s) == IF s = " a" THEN "a" ELSE s
             Asked(m) ==
                 /\ (platform.given /\ platform.s # "")
                       => Trimmed(m.platform_id) = platform.s
                 /\ (provider.given /\ provider.s # "")
                       => Trimmed(m.provider) = provider.s
             chosen == SelectSeq(fetch_metrics, Asked)
             k == Min(reply'.limit, Len(chosen))
         IN /\ Len(reply'.metrics) = k
            /\ \A i \in 1..k : reply'.metrics[i] = chosen[Len(chosen) - k + i]
            /\ UNCHANGED fetch_metrics
    ]_vars

\* the ring holds records of "a", of " a" and then of "b"; a query for
\* platform "a" with limit 1 has returned the second record alone
C15_Witness ==
    /\ reply.op = "metrics" /\ reply.code = 200 /\ reply.limit = 1
    /\ reply.platform = Filter("a")
    /\ Len(fetch_metrics) = 3
    /\ fetch_metrics[1].platform_id = "a"
    /\ fetch_metrics[2].platform_id = " a"
    /\ fetch_metrics[3].platform_id = "b"
    /\ reply.metrics = <<fetch_metrics[2]>>

\* the source a record is grouped under
GroupKey(m) ==
    CASE m.platform_id \in {"a", " a"} -> "a"
      [] m.platform_id = "" -> "unknown"
      [] OTHER -> m.platform_id

RECURSIVE SeqSum(_)
SeqSum(ns) == IF ns = <<>> THEN 0 ELSE ns[1] + SeqSum(Tail(ns))

\* the records of `win` grouped under `key`, and what the summary entry `ent`
\* must say of their statuses
GroupOf(win, key) == SelectSeq(win, LAMBDA m : GroupKey(m) = key)
CountsCover(ent, group) ==
    /\ group # <<>>
    /\ ent.success = Len(SelectSeq(group, LAMBDA m : m.status = "success"))
    /\ ent.cache = Len(SelectSeq(group, LAMBDA m : m.status = "cache"))
    /\ ent.success + ent.cache + ent.error = Len(group)
GroupsCover(win, summary, platform) ==
    /\ \A i \in DOMAIN summary : CountsCover(summary[i], GroupOf(win, summary[i].platform_id))
    /\ \A i, j \in DOMAIN summary :
          summary[i].platform_id = summary[j].platform_id => i = j
    /\ \A k \in DOMAIN win : \E i \in DOMAIN summary : summary[i].platform_id = GroupKey(win[k])
    /\ (platform.given /\ platform.s # "")
          => \A i \in DOMAIN summary : summary[i].platform_id = platform.s

\* the values of the three numeric fields in the records of a group that have them
Durations(group) ==
    LET having == SelectSeq(group, LAMBDA m : m.duration_ms.known)
    IN [i \in DOMAIN having |-> having[i].duration_ms.n]
ItemCounts(group) ==
    LET having == SelectSeq(group, LAMBDA m : m.items_count.known)
    IN [i \in DOMAIN having |-> having[i].items_count.n]
ChangedCounts(group) ==
    LET having == SelectSeq(group, LAMBDA m : m.changed_count.known)
    IN [i \in DOMAIN having |-> having[i].changed_count.n]

\* avg is null when there is no value, else the mean of the values exactly
\* (`scale` is 1 for a whole number, 100 for hundredths)
ExactMean(avg, ns, scale) ==
    IF ns = <<>> THEN avg = Unknown
    ELSE avg.known /\ avg.n * Len(ns) = scale * SeqSum(ns)
\* avg is null when there is no value, else the mean cut down to a whole number
CutMean(avg, ns) ==
    IF ns = <<>> THEN avg = Unknown
    ELSE /\ avg.known
         /\ avg.n * Len(ns) <= SeqSum(ns)
         /\ SeqSum(ns) < (avg.n + 1) * Len(ns)
\* avg is null when there is no value, else the hundredth nearest to the mean
NearestHundredth(avg, ns) ==
    IF ns = <<>> THEN avg = Unknown
    ELSE /\ avg.known
         /\ 2 * (avg.n * Len(ns) - 100 * SeqSum(ns)) <= Len(ns)
         /\ 2 * (100 * SeqSum(ns) - avg.n * Len(ns)) <= Len(ns)

\* C16 (as stated): the summary of a metrics query groups the records of the
\* filtered and limited window by source: no group of another source than the
\* one asked for, status counts that cover the group's records, and each
\* average null when no record of the group has the field as a number, else
\* the mean of the records that have it.
C16_ExactAverages ==
    [][Queried =>
         /\ GroupsCover(reply'.metrics, reply'.summary, reply'.platform)
         /\ \A i \in DOMAIN reply'.summary :
              LET ent == reply'.summary[i]
                  group == GroupOf(reply'.metrics, ent.platform_id)
              IN /\ ExactMean(ent.avg_duration_ms, Durations(group), 1)
                 /\ ExactMean(ent.avg_items_count, ItemCounts(group), 100)
                 /\ ExactMean(ent.avg_changed_count, ChangedCounts(group), 100)
    ]_vars

\* C16 (amended): as stated, but the averages are rounded: avg_duration_ms is
\* the mean of the records that have the field cut down to a whole number,
\* avg_items_count and avg_changed_count are that mean rounded to two
\* decimals; each is null, not zero, when no record of the group has the field.
C16_RoundedAverages ==
    [][Queried =>
         /\ GroupsCover(reply'.metrics, reply'.summary, reply'.platform)
         /\ \A i \in DOMAIN reply'.summary :
              LET ent == reply'.summary[i]
                  group == GroupOf(reply'.metrics, ent.platform_id)
              IN /\ CutMean(ent.avg_duration_ms, Durations(group))
                 /\ NearestHundredth(ent.avg_items_count, ItemCounts(group))
                 /\ NearestHundredth(ent.avg_changed_count, ChangedCounts(group))
    ]_vars

\* a window of three records: two of "a" lasting 1 and 2 ms, one of them with
\* 3 items, and a failed one of "b" with no duration
C16_Witness ==
    /\ reply.op = "metrics" /\ reply.code = 200 /\ Len(reply.metrics) = 3
    /\ Len(reply.summary) = 2
    /\ reply.summary[1].platform_id = "a"
    /\ reply.summary[1].avg_duration_ms = Known(1)
    /\ reply.summary[1].avg_items_count = Known(300)
    /\ reply.summary[1].avg_changed_count = Known(50)
    /\ reply.summary[2].platform_id = "b"
    /\ reply.summary[2].error = 1
    /\ reply.summary[2].avg_duration_ms = Unknown
    /\ reply.summary[2].avg_changed_count = Unknown

\* C17: in every reachable state the stored interval is a whole number of
\* minutes from 5 to 1440, whichever path started the scheduler (the start API
\* or the automatic start at process startup).
C17_IntervalInRange ==
    fetch_interval_minutes.num /\ InApiRange(fetch_interval_minutes.v)

\* lines 762-766: what POST /api/scheduler/start answers when it has started
\* the scheduler with interval i: success, "started, every i minutes", i
StartedWith(i) == [NoResponse EXCEPT !.op = "start", !.code = 200,
                                     !.interval = IntervalOf(i)]

\* C18: a start accepted while the scheduler is running changes neither the
\* stored interval, nor the loop, nor the last fetch time, and its answer is
\* not the answer of a start that has started the scheduler with the interval
\* asked for.
C18_AlreadyRunningSignalled ==
    [][(scheduler_running /\ api_start_scheduler(ApiIntervals)
          /\ response'.code = 200) =>
         /\ UNCHANGED <<fetch_interval_minutes, scheduler_running, scheduler_task,
                        tasks, last_fetch_time>>
         /\ \A i \in ApiIntervals : response' # StartedWith(i)
    ]_vars

\* the steps in which a write of the metrics file fails in cycle c: the append
\* ends the function before the file is read back; the rewrite leaves the file
\* without the lines it was to hold
AppendFailed(c) == cyc[c].pc = "log_append" /\ cyc'[c].pc # "log_read"
RewriteFailed(c) ==
    /\ cyc[c].pc = "log_rewrite"
    /\ cyc'[c].pc # "log_rewrite"
    /\ metrics_file' # FileRewrite(cyc[c].lines, fetch_metrics_max)

\* what a cycle that has handed its records to the ring returns, and what it
\* has done by then, given what the crawler returned and whether the save failed
ResultAfterRecording(c) ==
    IF hist[c].sources = {} THEN cyc[c].result = Failure("no_data")
    ELSE IF hist[c].raised = "storage" THEN cyc[c].result = Failure("storage_error")
    ELSE /\ hist[c].persisted /\ hist[c].set_last
         /\ hist[c].clears = 1 /\ hist[c].invalidated = 1
         /\ cyc[c].result = Success(Cardinality(hist[c].sources), ItemsIn(hist[c].sources))

\* C19: a failed write of the metrics file (append or rewrite) changes nothing
\* but the file: the ring still ends with all the records of the batch, and
\* the cycle goes on to the save like a cycle whose write succeeded; every
\* cycle that has recorded its batch, whatever happened to the file, saves,
\* invalidates and returns the result that the crawl and the save determine.
C19_LogFailureSwallowed ==
    /\ [][\A c \in Cycles :
            (AppendFailed(c) \/ RewriteFailed(c)) =>
               /\ cyc[c].batch # <<>>
               /\ fetch_metrics' = fetch_metrics
               /\ LastN(fetch_metrics', Len(cyc[c].batch)) = cyc[c].batch
               /\ cyc'[c] = [cyc[c] EXCEPT !.pc = "check", !.lines = <<>>]
               /\ hist' = hist
               /\ UNCHANGED <<stored, last_fetch_time, cacheVars, serviceVars,
                              last_platform_content_keys>>
       ]_vars
    /\ [](\A c \in Cycles :
            (Finished(c) /\ hist[c].recorded) => ResultAfterRecording(c))

\* the append of the first cycle failed and the rewrite of the second left the
\* file empty; both cycles have returned success and the ring holds the two
\* records of the second
C19_Witness ==
    /\ Finished(1) /\ cyc[1].result.success
    /\ hist[1].statuses # <<>> /\ ~hist[1].logged
    /\ Finished(2) /\ cyc[2].result = Success(2, 8)
    /\ hist[2].logged /\ metrics_file = <<>>
    /\ Len(fetch_metrics) = 2
    /\ \A i \in 1..2 : fetch_metrics[i].fetched_at = cyc[2].now_str

\* C20: after an observation of a source that reports a key list L, empty or
\* not, the stored snapshot of the source is L, and the snapshot of every source
\* is the list it reported last; an observation with K keys that follows one
\* with no keys is given changed_count K.
C20_SnapshotOverwritten ==
    /\ \A p \in {"a", "b"} : last_platform_content_keys[p] = reported[p]
    /\ (observed.n > 0 /\ observed.m.platform_id # "" /\ observed.m.keys.has) =>
          /\ last_platform_content_keys[observed.m.platform_id] = observed.m.keys
          /\ observed.prev = KeyList(<<>>) =>
                observed.changed = Known(Len(observed.m.keys.list))

\* a source that had reported an empty list reports k1, k2 in its last
\* observation: both count as changed and the snapshot holds them
C20_Witness ==
    /\ observed.n = MaxObs
    /\ observed.prev = KeyList(<<>>)
    /\ observed.m.platform_id = "a"
    /\ observed.m.keys = KeyList(<<"k1", "k2">>)
    /\ observed.changed = Known(2)
    /\ last_platform_content_keys["a"] = KeyList(<<"k1", "k2">>)

\* the step of one observation
Observes == observed'.n = observed.n + 1

\* C21: an observation of a source that reports no key list is given an
\* unknown changed_count, never zero, and leaves every stored snapshot as it
\* was; so an observation that does report keys is counted against the list
\* its source reported last, whatever observations without a list came between.
C21_NoListNoChange ==
    [][Observes =>
         LET m == observed'.m
             last == IF m.platform_id = "" THEN NoKeys ELSE reported[m.platform_id]
         IN /\ ~m.keys.has =>
                 /\ observed'.changed = Unknown
                 /\ observed'.changed # Known(0)
                 /\ last_platform_content_keys' = last_platform_content_keys
            /\ (m.keys.has /\ m.platform_id # "") =>
                 observed'.changed =
                    Known(IF last.has /\ last.list # <<>>
                          THEN Cardinality({i \in DOMAIN m.keys.list :
                                              m.keys.list[i] \notin Range(last.list)})
                          ELSE Len(m.keys.list))
    ]_vars

\* source "a", whose snapshot holds k1, k2, has just been observed without a
\* key list: the count is unknown and the snapshot still holds k1, k2
C21_Witness ==
    /\ observed.n > 1
    /\ observed.m.platform_id = "a"
    /\ ~observed.m.keys.has
    /\ observed.changed = Unknown
    /\ reported["a"] = KeyList(<<"k1", "k2">>)
    /\ last_platform_content_keys["a"] = KeyList(<<"k1", "k2">>)

\* records in the order of their timestamps, equal ones in any order
TimeOrdered(items) ==
    \A i, j \in DOMAIN items : i < j => items[i].fetched_at <= items[j].fetched_at

\* C22: whatever cycles overlap, the records of the ring, and so the records a
\* metrics query answers with, are in non-decreasing fetched_at order.
C22_RingTimeOrdered ==
    /\ TimeOrdered(fetch_metrics)
    /\ reply.op = "metrics" => TimeOrdered(reply.metrics)

\* no cycle is in flight: every cycle that was started has returned
AllCyclesFinished == \A c \in Cycles : cyc[c].pc \in {"free", "returned", "done"}

\* cycle c is between its append to the metrics file and the end of
\* _append_fetch_metrics_batch
InLogSection(c) == cyc[c].pc \in {"log_read", "log_rewrite"}

\* C23: the sections of two cycles that append to the metrics file, read it
\* back and rewrite it never interleave: no cycle appends while another is
\* between its append and its rewrite; and once every cycle has finished, the
\* file holds the records of the ring, in the same order.
C23_LogSerialized ==
    /\ Cardinality({c \in Cycles : InLogSection(c)}) <= 1
    /\ AllCyclesFinished => RecordsOf(metrics_file) = fetch_metrics

\* the places of `items` that hold records of the batch of thread w, and those
\* records
PlacesOf(items, w) == {i \in DOMAIN items : items[i].fetched_at = thr[w].stamp}
SeenOf(items, w) == SelectSeq(items, LAMBDA m : m.fetched_at = thr[w].stamp)
Contiguous(places) ==
    \A i, j \in places : \A k \in i..j : k \in places
IsSuffix(s, b) == Len(s) <= Len(b) /\ s = SubSeq(b, Len(b) - Len(s) + 1, Len(b))

\* of the batch of every thread, `items` holds all the records or none, side
\* by side
AllOrNone(items) ==
    \A w \in Writers :
        /\ SeenOf(items, w) \in {<<>>, thr[w].batch}
        /\ Contiguous(PlacesOf(items, w))

\* of the batch of every thread, `items` holds all the records, none, or the
\* last ones when the full ring has dropped the first ones as its oldest
\* records; side by side and in the order of the batch
AllOrNoneButEvicted(items) ==
    \A w \in Writers :
        /\ IsSuffix(SeenOf(items, w), thr[w].batch)
        /\ Contiguous(PlacesOf(items, w))
        /\ SeenOf(items, w) \notin {<<>>, thr[w].batch} =>
              /\ Len(items) = fetch_metrics_max
              /\ 1 \in PlacesOf(items, w)

\* C24 (as stated): whatever the interleaving of recording threads and
\* queries, the copy a query takes of the ring holds all or none of the
\* records of each batch, and the records of a batch are side by side in the
\* copy and in the ring.
C24_BatchAllOrNone ==
    /\ thr["q"].n > 0 => AllOrNone(thr["q"].items)
    /\ \A w \in Writers : Contiguous(PlacesOf(fetch_metrics, w))

\* C24 (amended): as stated, except that of a batch whose first records the
\* full ring has evicted as its oldest, the copy holds the remaining last
\* records; no copy holds a batch that is still being appended.
C24_BatchAtomic ==
    /\ thr["q"].n > 0 => AllOrNoneButEvicted(thr["q"].items)
    /\ \A w \in Writers : Contiguous(PlacesOf(fetch_metrics, w))
    /\ fetch_metrics_lock = "free" => AllOrNoneButEvicted(fetch_metrics)
    /\ \A w \in Writers : thr[w].pc = "append" => fetch_metrics_lock = w
    /\ thr["q"].pc = "locked" => fetch_metrics_lock = "q"

\* the query has copied the two records of the first batch whole; the other
\* thread has then taken the lock and is half-way through its own batch
C24_Witness ==
    /\ thr["q"].n > 0 /\ thr["q"].pc = "done"
    /\ thr["w1"].pc = "done" /\ Len(thr["w1"].batch) = 2
    /\ thr["q"].items = thr["w1"].batch
    /\ thr["w2"].pc = "append" /\ thr["w2"].j = 2 /\ Len(thr["w2"].batch) = 2
    /\ Len(fetch_metrics) = 3

\* C25: in every reachable state _scheduler_running, the flag status() answers
\* with, is true exactly when the task handle names a loop task that is alive.
C25_RunningIffLoopAlive ==
    scheduler_running = (scheduler_task # 0 /\ Alive(scheduler_task))
====
